---- MODULE Spec2Model ----
(***************************************************************************)
(* A model of rloxj, a tree-walking interpreter for Lox.                   *)
(*                                                                         *)
(* The repository holds two evaluators over the same tree:                 *)
(*   - the nodes' own methods, Stmt::eval(env) and Expr::eval(env), which  *)
(*     pass the environment explicitly; Interpreter::interpret and         *)
(*     FunctionObject::call run these;                                     *)
(*   - the visitor `impl Evaluator for Interpreter` (eval, eval_block,     *)
(*     ...), which keeps the current environment in self.environment.     *)
(* Both are modelled, each operator named after the method it models.      *)
(* Evaluation is direct recursion in the code and RECURSIVE operators      *)
(* here; every operator takes the heap it reads and returns the heap it    *)
(* leaves, so an error keeps the effects that came before it.              *)
(***************************************************************************)
EXTENDS Integers, Sequences, FiniteSets, TLC

VARIABLES
    envs,         \* the heap of Environment cells, Rc<RefCell<Environment>>
    environment,  \* Interpreter.environment: the index of the current cell
    locals,       \* Interpreter.locals: node -> depth, filled by the resolver
    scopes,       \* Resolver.scopes as the last resolver run left it
    errors,       \* the static errors the last resolver run reported
    out,          \* standard output, one element per println!
    trace,        \* history: what the last call read, wrote, called, printed
    nclone,       \* addresses handed out so far by Rc::new(self.clone())
    status,       \* how the last call ended: [res, err], res "New" at first
    calls,        \* calls made on this interpreter so far
    last,         \* history: the last call and the program it was given
    resolved,     \* history: the programs a resolver pass took without error
    scanner,      \* the Scanner of the last scan: source, tokens, start, ..
    scanned,      \* what the last scan_tokens returned
    parser        \* the Parser of the last parse: tokens, statements, ..

vars == <<envs, environment, locals, scopes, errors, out, trace, nclone,
          status, calls, last, resolved, scanner, scanned, parser>>

\* the interpreter and the resolver, and the front end
back == <<envs, environment, locals, scopes, errors, out, trace, nclone,
          status, calls, last, resolved>>

front == <<scanner, scanned, parser>>

(***************************************************************************)
(* Bounds.                                                                 *)
(***************************************************************************)
MaxCalls == 2

(***************************************************************************)
(* f64.  A finite value is the rational num/den in lowest terms with       *)
(* den > 0 (rounding is not modelled); "nan" and "inf" (num = 1 or -1)     *)
(* are the values division by zero produces.  The sign of zero is not      *)
(* modelled: 0 is +0.0.                                                    *)
(***************************************************************************)
Abs(x) == IF x < 0 THEN -x ELSE x

Sign(x) == IF x < 0 THEN -1 ELSE IF x = 0 THEN 0 ELSE 1

RECURSIVE Gcd(_, _)
Gcd(a, b) == IF b = 0 THEN a ELSE Gcd(b, a % b)

Fin(num, den) ==
    LET g == Gcd(Abs(num), Abs(den))
        s == IF den < 0 THEN -1 ELSE 1
    IN  [cls |-> "fin", num |-> (s * num) \div g, den |-> (s * den) \div g]

NaN == [cls |-> "nan", num |-> 0, den |-> 1]

Inf(s) == [cls |-> "inf", num |-> s, den |-> 1]

F(k) == [cls |-> "fin", num |-> k, den |-> 1]

f64_neg(a) == IF a.cls = "nan" THEN a ELSE [a EXCEPT !.num = -a.num]

f64_add(a, b) ==
    IF a.cls = "nan" \/ b.cls = "nan" THEN NaN
    ELSE IF a.cls = "inf"
         THEN IF b.cls = "inf" /\ b.num /= a.num THEN NaN ELSE a
    ELSE IF b.cls = "inf" THEN b
    ELSE Fin(a.num * b.den + b.num * a.den, a.den * b.den)

f64_sub(a, b) == f64_add(a, f64_neg(b))

f64_mul(a, b) ==
    IF a.cls = "nan" \/ b.cls = "nan" THEN NaN
    ELSE IF a.cls = "inf" \/ b.cls = "inf"
         THEN IF a.num = 0 \/ b.num = 0 THEN NaN
              ELSE Inf(Sign(a.num) * Sign(b.num))
    ELSE Fin(a.num * b.num, a.den * b.den)

f64_div(a, b) ==
    IF a.cls = "nan" \/ b.cls = "nan" THEN NaN
    ELSE IF a.cls = "inf"
         THEN IF b.cls = "inf" THEN NaN
              ELSE Inf(a.num * (IF b.num < 0 THEN -1 ELSE 1))
    ELSE IF b.cls = "inf" THEN F(0)
    ELSE IF b.num = 0
         THEN IF a.num = 0 THEN NaN ELSE Inf(Sign(a.num))
    ELSE Fin(a.num * b.den, a.den * b.num)

\* a < b; every comparison with NaN is false
f64_lt(a, b) ==
    IF a.cls = "nan" \/ b.cls = "nan" THEN FALSE
    ELSE IF a.cls = "inf"
         THEN IF b.cls = "inf" THEN a.num < b.num ELSE a.num < 0
    ELSE IF b.cls = "inf" THEN b.num > 0
    ELSE a.num * b.den < b.num * a.den

\* a == b; NaN equals nothing, itself included
f64_eq(a, b) == a.cls /= "nan" /\ b.cls /= "nan" /\ a = b

f64_le(a, b) == f64_lt(a, b) \/ f64_eq(a, b)

\* Display for f64.  Whole values print without a fraction.  The programs
\* of the pools print whole values only; another finite value is shown as
\* num/den, which is not the decimal expansion Display gives.
f64_to_string(a) ==
    IF a.cls = "nan" THEN "NaN"
    ELSE IF a.cls = "inf" THEN (IF a.num < 0 THEN "-inf" ELSE "inf")
    ELSE IF a.den = 1 THEN ToString(a.num)
    ELSE ToString(a.num) \o "/" \o ToString(a.den)

(***************************************************************************)
(* LoxObject.                                                              *)
(***************************************************************************)
None == [t |-> "None"]

Nil == [t |-> "Nil"]

Bool(b) == [t |-> "Bool", b |-> b]

Number(x) == [t |-> "Number", n |-> x]

String(s) == [t |-> "String", s |-> s]

\* f is a FunctionObject
Function(f) == [t |-> "Function", f |-> f]

ReturnValue(v) == [t |-> "ReturnValue", v |-> v]

\* declaration is an Rc<stmt::Function>: the address of the allocation and
\* the node stored there
FunctionObject(arity, addr, node, env) ==
    [arity |-> arity, declaration |-> [addr |-> addr, node |-> node],
     environment |-> env]

\* Rc::ptr_eq on the declarations, and the arities
FunctionObject_eq(a, b) ==
    LET arity_match == a.arity = b.arity
        declaration_match == a.declaration.addr = b.declaration.addr
    IN  arity_match /\ declaration_match

\* #[derive(PartialEq)] on LoxObject: same variant and equal payloads
RECURSIVE LoxObject_eq(_, _)
LoxObject_eq(a, b) ==
    IF a.t /= b.t THEN FALSE
    ELSE CASE a.t = "Bool" -> a.b = b.b
           [] a.t = "Number" -> f64_eq(a.n, b.n)
           [] a.t = "String" -> a.s = b.s
           [] a.t = "Function" -> FunctionObject_eq(a.f, b.f)
           [] a.t = "ReturnValue" -> LoxObject_eq(a.v, b.v)
           [] OTHER -> TRUE

RECURSIVE to_string(_)
to_string(o) ==
    CASE o.t = "None" -> ""
      [] o.t = "Nil" -> "nil"
      [] o.t = "Bool" -> (IF o.b THEN "true" ELSE "false")
      [] o.t = "Number" -> f64_to_string(o.n)
      [] o.t = "String" -> o.s
      [] o.t = "Function" -> "Function callable"
      [] o.t = "ReturnValue" -> to_string(o.v)

is_truthy(object) ==
    CASE object.t \in {"None", "Nil"} -> FALSE
      [] object.t = "Bool" -> object.b
      [] OTHER -> TRUE

is_equal(left, right) ==
    CASE left.t = "Nil" /\ right.t = "Nil" -> TRUE
      [] left.t = "Nil" /\ right.t /= "Nil" -> FALSE
      [] OTHER -> LoxObject_eq(left, right)

LoxError(line, message, position) ==
    [line |-> line, message |-> message, position |-> position]

(***************************************************************************)
(* Results.  Ok and Err both carry the state the evaluation left.          *)
(***************************************************************************)
Ok(v, st) == [res |-> "Ok", val |-> v, st |-> st]

Err(e, st) == [res |-> "Err", err |-> e, st |-> st]

(***************************************************************************)
(* Environment.  A cell of the heap is [values, enclosing]; enclosing = 0  *)
(* is None.  Cells are never freed: dropping an Rc is not observable.      *)
(***************************************************************************)
EmptyMap == [x \in {} |-> None]

Insert(map, k, v) ==
    [x \in DOMAIN map \cup {k} |-> IF x = k THEN v ELSE map[x]]

Environment_new == [values |-> EmptyMap, enclosing |-> 0]

new_with_enclosing(enclosing) == [values |-> EmptyMap, enclosing |-> enclosing]

define(h, e, name, value) ==
    [h EXCEPT ![e].values = Insert(@, name, value)]

Undefined(name) ==
    LoxError(name.line, "Undefined variable " \o name.lexeme \o ".",
             name.position)

\* Environment::get had it asked the enclosing environment first
RECURSIVE get_outer_first(_, _, _)
get_outer_first(h, e, name) ==
    LET own(up) ==
            IF up.res = "Ok" THEN up
            ELSE IF name.lexeme \in DOMAIN h[e].values
            THEN [res |-> "Ok", val |-> h[e].values[name.lexeme]]
            ELSE up
    IN  own(IF h[e].enclosing /= 0
            THEN get_outer_first(h, h[e].enclosing, name)
            ELSE [res |-> "Err", err |-> Undefined(name)])

\* Ok(value) or Err; h is the heap
RECURSIVE get(_, _, _)
get(h, e, name) ==
    IF name.lexeme \in DOMAIN h[e].values
    THEN [res |-> "Ok", val |-> h[e].values[name.lexeme]]
    ELSE IF h[e].enclosing /= 0 THEN get(h, h[e].enclosing, name)
    ELSE [res |-> "Err", err |-> Undefined(name)]

\* Environment::assign had it inserted into the environment it is called on
assign_in_place(h, e, name, value) ==
    [res |-> "Ok", h |-> [h EXCEPT ![e].values = Insert(@, name.lexeme, value)]]

\* Ok with the heap after the write, or Err with the heap as it was
RECURSIVE assign(_, _, _, _)
assign(h, e, name, value) ==
    IF name.lexeme \in DOMAIN h[e].values
    THEN [res |-> "Ok", h |-> [h EXCEPT ![e].values = Insert(@, name.lexeme, value)]]
    ELSE IF h[e].enclosing /= 0 THEN assign(h, h[e].enclosing, name, value)
    ELSE [res |-> "Err", err |-> Undefined(name), h |-> h]

(***************************************************************************)
(* Tokens and tree nodes.  A token is [token_type, lexeme, line, position] *)
(* and two tokens at different places differ; a Variable, Assign or        *)
(* Function node is told from every other node by its name token, which    *)
(* stands for the address of the node (ByAddress, Rc::ptr_eq).             *)
(***************************************************************************)
Token(token_type, lexeme, line, position) ==
    [token_type |-> token_type, lexeme |-> lexeme, line |-> line,
     position |-> position]

Literal(value) == [kind |-> "Literal", value |-> value]

Unary(operator, expr) == [kind |-> "Unary", operator |-> operator, expr |-> expr]

Binary(left, operator, right) ==
    [kind |-> "Binary", left |-> left, operator |-> operator, right |-> right]

Grouping(expr) == [kind |-> "Grouping", expr |-> expr]

NoOp == [kind |-> "NoOp"]

Variable(name) == [kind |-> "Variable", name |-> name]

Assign(name, value) == [kind |-> "Assign", name |-> name, value |-> value]

Logical(left, operator, right) ==
    [kind |-> "Logical", left |-> left, operator |-> operator, right |-> right]

Call(callee, paren, arguments) ==
    [kind |-> "Call", callee |-> callee, paren |-> paren,
     arguments |-> arguments]

Expression(expr) == [kind |-> "Expression", expr |-> expr]

PrintStmt(expr) == [kind |-> "Print", expr |-> expr]

Var(name, initializer) ==
    [kind |-> "Var", name |-> name, initializer |-> initializer]

Block(statements, function_block) ==
    [kind |-> "Block", statements |-> statements,
     function_block |-> function_block]

If(condition, then_branch, else_branch) ==
    [kind |-> "If", condition |-> condition, then_branch |-> then_branch,
     else_branch |-> else_branch]

While(condition, body) ==
    [kind |-> "While", condition |-> condition, body |-> body]

FunctionStmt(name, params, body) ==
    [kind |-> "Function", name |-> name, params |-> params, body |-> body]

\* value is an Option: <<>> is None, <<e>> is Some(e)
Return(keyword, value) ==
    [kind |-> "Return", keyword |-> keyword, value |-> value]

(***************************************************************************)
(* The state an evaluation threads: st = [envs, environment, out, trace,   *)
(* nclone].  Log adds an entry to the history; it changes nothing the      *)
(* program can observe.                                                    *)
(***************************************************************************)
Log(st, e) == [st EXCEPT !.trace = Append(@, e)]

\* the heap with one more cell; the new cell's index is Len(h) + 1
Alloc(h, cell) == Append(h, cell)

\* history: the names each cell of the chain from e holds, innermost first
RECURSIVE Chain(_, _)
Chain(h, e) ==
    IF e = 0 THEN <<>> ELSE <<DOMAIN h[e].values>> \o Chain(h, h[e].enclosing)

\* history: the cell of the chain from e that get and assign reach for a
\* name, 0 when none holds it
RECURSIVE Holder(_, _, _)
Holder(h, e, lexeme) ==
    IF e = 0 THEN 0
    ELSE IF lexeme \in DOMAIN h[e].values THEN e
    ELSE Holder(h, h[e].enclosing, lexeme)

(***************************************************************************)
(* The nodes' own evaluation: Expr::eval(env) and Stmt::eval(env).  The    *)
(* value of a sub-evaluation is named as the parameter of a local          *)
(* operator, which stands for the code after it.                           *)
(***************************************************************************)
RECURSIVE Expr_eval(_, _, _)
RECURSIVE Stmt_eval(_, _, _)

Literal_eval(e, env, st) ==
    CASE e.value.k = "String" -> Ok(String(e.value.s), st)
      [] e.value.k = "Num" -> Ok(Number(e.value.n), st)
      [] e.value.k = "True" -> Ok(Bool(TRUE), st)
      [] e.value.k = "False" -> Ok(Bool(FALSE), st)
      [] e.value.k = "Nil" -> Ok(Nil, st)

is_num_operand(operator, expr) ==
    IF expr.t = "Number" THEN [res |-> "Ok"]
    ELSE [res |-> "Err",
          err |-> LoxError(operator.line, "Operand must be number.",
                           operator.position)]

throw_num_operands_error(operator, st) ==
    Err(LoxError(operator.line, "Operands must both be numbers.",
                 operator.position), st)

\* the match on the operator, once the operand has its value
UnaryOp(operator, expr, st) ==
    CASE operator.token_type = "Minus" ->
           IF is_num_operand(operator, expr).res = "Err"
           THEN Err(is_num_operand(operator, expr).err, st)
           ELSE Ok(Number(f64_neg(expr.n)), st)
      [] operator.token_type = "Bang" ->
           CASE expr.t = "Bool" -> Ok(Bool(~expr.b), st)
             [] expr.t = "Nil" -> Ok(Bool(TRUE), st)
             [] OTHER ->
                  Err(LoxError(operator.line,
                               "Cannot convert expression to truthy/falsy.",
                               operator.position), st)

Unary_eval(e, env, st) ==
    LET apply(r) ==
            IF r.res = "Err" THEN r ELSE UnaryOp(e.operator, r.val, r.st)
    IN  apply(Expr_eval(e.expr, env, st))

\* the match on the operator, once both operands have their values
BinaryOp(operator, left, right, st) ==
    LET nums == left.t = "Number" /\ right.t = "Number"
        a == left.n
        b == right.n
        op == operator.token_type
    IN  CASE op = "Minus" ->
               IF nums THEN Ok(Number(f64_sub(a, b)), st)
               ELSE throw_num_operands_error(operator, st)
          [] op = "Slash" ->
               IF nums THEN Ok(Number(f64_div(a, b)), st)
               ELSE throw_num_operands_error(operator, st)
          [] op = "Star" ->
               IF nums THEN Ok(Number(f64_mul(a, b)), st)
               ELSE throw_num_operands_error(operator, st)
          [] op = "Plus" ->
               IF nums THEN Ok(Number(f64_add(a, b)), st)
               ELSE IF left.t = "String" /\ right.t = "String"
                    THEN Ok(String(left.s \o right.s), st)
               ELSE throw_num_operands_error(operator, st)
          [] op = "Greater" ->
               IF nums THEN Ok(Bool(f64_lt(b, a)), st)
               ELSE throw_num_operands_error(operator, st)
          [] op = "GreaterEqual" ->
               IF nums THEN Ok(Bool(f64_le(b, a)), st)
               ELSE throw_num_operands_error(operator, st)
          [] op = "Less" ->
               IF nums THEN Ok(Bool(f64_lt(a, b)), st)
               ELSE throw_num_operands_error(operator, st)
          [] op = "LessEqual" ->
               IF nums THEN Ok(Bool(f64_le(a, b)), st)
               ELSE throw_num_operands_error(operator, st)
          [] op = "EqualEqual" -> Ok(Bool(is_equal(left, right)), st)
          [] op = "BangEqual" -> Ok(Bool(~is_equal(left, right)), st)

Binary_eval(e, env, st) ==
    LET apply(left, right) ==
            IF right.res = "Err" THEN right
            ELSE BinaryOp(e.operator, left.val, right.val, right.st)
        then_right(left) ==
            IF left.res = "Err" THEN left
            ELSE apply(left, Expr_eval(e.right, env, left.st))
    IN  then_right(Expr_eval(e.left, env, st))

Grouping_eval(e, env, st) == Expr_eval(e.expr, env, st)

NoOp_eval(e, env, st) == Ok(Nil, st)

Variable_eval(e, env, st) ==
    LET r == get(st.envs, env, e.name)
        st1 == Log(st, [ev |-> "get", name |-> e.name, env |-> env,
                        at |-> Holder(st.envs, env, e.name.lexeme),
                        chain |-> Chain(st.envs, env)])
    IN  IF r.res = "Err" THEN Err(r.err, st1) ELSE Ok(r.val, st1)

Assign_eval(e, env, st) ==
    LET write(v) ==
            LET a == assign(v.st.envs, env, e.name, v.val)
                st1 == Log([v.st EXCEPT !.envs = a.h],
                           [ev |-> "assign", name |-> e.name, env |-> env,
                            at |-> Holder(v.st.envs, env, e.name.lexeme),
                            chain |-> Chain(v.st.envs, env), val |-> v.val])
            IN  IF a.res = "Err" THEN Err(a.err, st1) ELSE Ok(v.val, st1)
        store(v) == IF v.res = "Err" THEN v ELSE write(v)
    IN  store(Expr_eval(e.value, env, st))

\* Logical::eval had it evaluated both operands before it chose
Logical_eval_eager(e, env, st) ==
    LET decided(left) ==
            IF e.operator.token_type = "Or" THEN is_truthy(left.val)
            ELSE ~is_truthy(left.val)
        choose(left, right) ==
            IF right.res = "Err" THEN right
            ELSE IF decided(left) THEN Ok(left.val, right.st)
            ELSE right
        both(left) ==
            IF left.res = "Err" THEN left
            ELSE choose(left, Expr_eval(e.right, env, left.st))
    IN  both(Expr_eval(e.left, env, st))

Logical_eval(e, env, st) ==
    LET decided(left) ==
            IF e.operator.token_type = "Or" THEN is_truthy(left.val)
            ELSE ~is_truthy(left.val)
        decide(left) ==
            IF left.res = "Err" THEN left
            ELSE IF decided(left) THEN left
            ELSE Expr_eval(e.right, env, left.st)
    IN  decide(Expr_eval(e.left, env, st))

\* the loop of Block::eval over statements i.. in the block's own cell
RECURSIVE Block_statements(_, _, _, _)
Block_statements(statements, i, scoped_env, st) ==
    LET step(r) ==
            IF r.res = "Err" THEN r
            ELSE IF r.val.t = "ReturnValue" THEN Ok(ReturnValue(r.val.v), r.st)
            ELSE Block_statements(statements, i + 1, scoped_env, r.st)
    IN  IF i > Len(statements) THEN Ok(None, st)
        ELSE step(Stmt_eval(statements[i], scoped_env, st))

\* Block::eval had it run the statements in env itself
Block_eval_flat(s, env, st) == Block_statements(s.statements, 1, env, st)

Block_eval(s, env, st) ==
    LET h == Alloc(st.envs, new_with_enclosing(env))
        scoped_env == Len(h)
    IN  Block_statements(s.statements, 1, scoped_env, [st EXCEPT !.envs = h])

\* the loop of FunctionObject::call that binds parameter pos to args[pos]
RECURSIVE BindParams(_, _, _, _, _)
BindParams(h, scoped_env, params, args, pos) ==
    IF pos > Len(args) THEN h
    ELSE BindParams(define(h, scoped_env, params[pos].lexeme, args[pos]),
                    scoped_env, params, args, pos + 1)

\* the match of FunctionObject::call on what the body's block returned
Returned(r, scoped_env) ==
    LET v == IF r.val.t = "ReturnValue" THEN r.val.v ELSE Nil
    IN  IF r.res = "Err" THEN r
        ELSE Ok(v, Log(r.st, [ev |-> "return", env |-> scoped_env, val |-> v]))

\* FunctionObject::call had it bound the parameters in the captured
\* environment itself instead of a new child of it
FunctionObject_call_in_place(f, args, st) ==
    LET scoped_env == f.environment
        bound == BindParams(st.envs, scoped_env, f.declaration.node.params,
                            args, 1)
        block == Block(f.declaration.node.body, TRUE)
        st1 == Log([st EXCEPT !.envs = bound],
                   [ev |-> "call", f |-> f, env |-> scoped_env, args |-> args,
                    cells |-> Len(st.envs)])
    IN  Returned(Block_eval(block, scoped_env, st1), scoped_env)

FunctionObject_call(f, args, st) ==
    LET h == Alloc(st.envs, new_with_enclosing(f.environment))
        scoped_env == Len(h)
        bound == BindParams(h, scoped_env, f.declaration.node.params, args, 1)
        block == Block(f.declaration.node.body, TRUE)
        st1 == Log([st EXCEPT !.envs = bound],
                   [ev |-> "call", f |-> f, env |-> scoped_env, args |-> args,
                    cells |-> Len(st.envs)])
    IN  Returned(Block_eval(block, scoped_env, st1), scoped_env)

\* the loop of Call::eval over the arguments; val is the vector of values
RECURSIVE Call_arguments(_, _, _, _, _)
Call_arguments(arguments, i, env, st, acc) ==
    LET step(r) ==
            IF r.res = "Err" THEN r
            ELSE Call_arguments(arguments, i + 1, env, r.st, Append(acc, r.val))
    IN  IF i > Len(arguments) THEN Ok(acc, st)
        ELSE step(Expr_eval(arguments[i], env, st))

\* Call::eval had it refused only a call with too many arguments
CallValue_too_many(e, env, callee, arguments, st) ==
    IF callee.t = "Function"
    THEN IF Len(arguments) > callee.f.arity
         THEN Err(LoxError(e.paren.line,
                           "Parameters and arguments mismatch in number.",
                           e.paren.position), st)
         ELSE FunctionObject_call(callee.f, arguments,
                  Log(st, [ev |-> "invoke", paren |-> e.paren, env |-> env,
                           f |-> callee.f]))
    ELSE Err(LoxError(e.paren.line, "Can only call functions and classes",
                      e.paren.position), st)

\* the checks of the callee and the call itself, shared by Call::eval and
\* Interpreter::eval_call once the callee and the arguments have values
CallValue(e, env, callee, arguments, st) ==
    IF callee.t = "Function"
    THEN IF Len(arguments) /= callee.f.arity
         THEN Err(LoxError(e.paren.line,
                           "Parameters and arguments mismatch in number.",
                           e.paren.position), st)
         ELSE FunctionObject_call(callee.f, arguments,
                  Log(st, [ev |-> "invoke", paren |-> e.paren, env |-> env,
                           f |-> callee.f]))
    ELSE Err(LoxError(e.paren.line, "Can only call functions and classes",
                      e.paren.position), st)

Call_eval(e, env, st) ==
    LET call(callee, arguments) ==
            IF arguments.res = "Err" THEN arguments
            ELSE CallValue(e, env, callee.val, arguments.val, arguments.st)
        then_arguments(callee) ==
            IF callee.res = "Err" THEN callee
            ELSE call(callee,
                      Call_arguments(e.arguments, 1, env, callee.st, <<>>))
    IN  then_arguments(Expr_eval(e.callee, env, st))

Expression_eval(s, env, st) == Expr_eval(s.expr, env, st)

\* println!, once the expression has its value
Println(r, env) ==
    LET text == to_string(r.val)
    IN  IF r.res = "Err" THEN r
        ELSE Ok(None, Log([r.st EXCEPT !.out = Append(@, text)],
                          [ev |-> "print", text |-> text, env |-> env]))

Print_eval(s, env, st) == Println(Expr_eval(s.expr, env, st), env)

\* Environment::define in env, once the initializer has its value
DefineVar(name, value, env) ==
    IF value.res = "Err" THEN value
    ELSE Ok(None,
            Log([value.st EXCEPT
                    !.envs = define(@, env, name.lexeme, value.val)],
                [ev |-> "define", name |-> name, env |-> env,
                 val |-> value.val]))

Var_eval(s, env, st) ==
    DefineVar(s.name, Expr_eval(s.initializer, env, st), env)

\* If::eval had it dropped the branch's value, a ReturnValue included
If_eval_dropping(s, env, st) ==
    LET drop(b) == IF b.res = "Err" THEN b ELSE Ok(None, b.st)
        branch(c) ==
            IF c.res = "Err" THEN c
            ELSE drop(Stmt_eval(IF is_truthy(c.val) THEN s.then_branch
                                ELSE s.else_branch, env, c.st))
    IN  branch(Expr_eval(s.condition, env, st))

If_eval(s, env, st) ==
    LET branch(c) ==
            IF c.res = "Err" THEN c
            ELSE Stmt_eval(IF is_truthy(c.val) THEN s.then_branch
                           ELSE s.else_branch, env, c.st)
    IN  branch(Expr_eval(s.condition, env, st))

RECURSIVE While_eval(_, _, _)
While_eval(s, env, st) ==
    LET again(b) ==
            IF b.res = "Err" THEN b
            ELSE IF b.val.t = "ReturnValue" THEN Ok(ReturnValue(b.val.v), b.st)
            ELSE While_eval(s, env, b.st)
        test(c) ==
            IF c.res = "Err" THEN c
            ELSE IF ~is_truthy(c.val) THEN Ok(None, c.st)
            ELSE again(Stmt_eval(s.body, env, c.st))
    IN  test(Expr_eval(s.condition, env, st))

\* Function::eval had it captured a copy of the environment instead of
\* the Rc itself
Function_eval_by_copy(s, env, st) ==
    LET h == Alloc(st.envs, st.envs[env])
        copy == Len(h)
        addr == [clone |-> st.nclone + 1]
        function == Function(FunctionObject(Len(s.params), addr, s, copy))
    IN  Ok(None,
           Log([st EXCEPT !.envs = define(h, env, s.name.lexeme, function),
                          !.nclone = @ + 1],
               [ev |-> "declare", name |-> s.name, env |-> env,
                val |-> function]))

\* Function::eval had it captured the global environment instead of the
\* one the declaration is evaluated in
Function_eval_global(s, env, st) ==
    LET addr == [clone |-> st.nclone + 1]
        function == Function(FunctionObject(Len(s.params), addr, s, 1))
    IN  Ok(None,
           Log([st EXCEPT !.envs = define(@, env, s.name.lexeme, function),
                          !.nclone = @ + 1],
               [ev |-> "declare", name |-> s.name, env |-> env,
                val |-> function]))

\* declaration: Rc::new(self.clone()) is a new allocation at every
\* evaluation of the statement
Function_eval(s, env, st) ==
    LET addr == [clone |-> st.nclone + 1]
        function == Function(FunctionObject(Len(s.params), addr, s, env))
    IN  Ok(None,
           Log([st EXCEPT !.envs = define(@, env, s.name.lexeme, function),
                          !.nclone = @ + 1],
               [ev |-> "declare", name |-> s.name, env |-> env,
                val |-> function]))

\* the ReturnValue a return statement wraps its result in
Returning(r, env) ==
    IF r.res = "Err" THEN r
    ELSE Ok(ReturnValue(r.val),
            Log(r.st, [ev |-> "ret", env |-> env, val |-> r.val]))

Return_eval(s, env, st) ==
    Returning(IF Len(s.value) = 0 THEN Ok(None, st)
              ELSE Expr_eval(s.value[1], env, st), env)

\* dyn Expr: the method of the node's own type
Expr_eval(e, env, st) ==
    CASE e.kind = "Literal" -> Literal_eval(e, env, st)
      [] e.kind = "Unary" -> Unary_eval(e, env, st)
      [] e.kind = "Binary" -> Binary_eval(e, env, st)
      [] e.kind = "Grouping" -> Grouping_eval(e, env, st)
      [] e.kind = "NoOp" -> NoOp_eval(e, env, st)
      [] e.kind = "Variable" -> Variable_eval(e, env, st)
      [] e.kind = "Assign" -> Assign_eval(e, env, st)
      [] e.kind = "Logical" -> Logical_eval(e, env, st)
      [] e.kind = "Call" -> Call_eval(e, env, st)

\* dyn Stmt: the method of the node's own type
Stmt_eval(s, env, st) ==
    CASE s.kind = "Expression" -> Expression_eval(s, env, st)
      [] s.kind = "Print" -> Print_eval(s, env, st)
      [] s.kind = "Var" -> Var_eval(s, env, st)
      [] s.kind = "Block" -> Block_eval(s, env, st)
      [] s.kind = "If" -> If_eval(s, env, st)
      [] s.kind = "While" -> While_eval(s, env, st)
      [] s.kind = "Function" -> Function_eval(s, env, st)
      [] s.kind = "Return" -> Return_eval(s, env, st)

(***************************************************************************)
(* The visitor: impl Evaluator for Interpreter.  The current environment   *)
(* is st.environment; a call runs the body through the nodes' own          *)
(* evaluation (FunctionObject::call).                                      *)
(***************************************************************************)
RECURSIVE eval(_, _)

eval_literal(expr, st) == Literal_eval(expr, st.environment, st)

eval_unary(expr, st) ==
    LET apply(right) ==
            IF right.res = "Err" THEN right
            ELSE UnaryOp(expr.operator, right.val, right.st)
    IN  apply(eval(expr.expr, st))

eval_binary(expr, st) ==
    LET apply(left, right) ==
            IF right.res = "Err" THEN right
            ELSE BinaryOp(expr.operator, left.val, right.val, right.st)
        then_right(left) ==
            IF left.res = "Err" THEN left
            ELSE apply(left, eval(expr.right, left.st))
    IN  then_right(eval(expr.left, st))

eval_grouping(expr, st) == eval(expr.expr, st)

eval_noop(expr, st) == Ok(None, st)

eval_variable(expr, st) ==
    LET r == get(st.envs, st.environment, expr.name)
        st1 == Log(st, [ev |-> "get", name |-> expr.name,
                        env |-> st.environment,
                        at |-> Holder(st.envs, st.environment, expr.name.lexeme),
                        chain |-> Chain(st.envs, st.environment)])
    IN  IF r.res = "Err" THEN Err(r.err, st1) ELSE Ok(r.val, st1)

eval_assign(expr, st) ==
    LET write(value) ==
            LET env == value.st.environment
                a == assign(value.st.envs, env, expr.name, value.val)
                st1 == Log([value.st EXCEPT !.envs = a.h],
                           [ev |-> "assign", name |-> expr.name, env |-> env,
                            at |-> Holder(value.st.envs, env, expr.name.lexeme),
                            chain |-> Chain(value.st.envs, env),
                            val |-> value.val])
            IN  IF a.res = "Err" THEN Err(a.err, st1) ELSE Ok(value.val, st1)
        store(value) == IF value.res = "Err" THEN value ELSE write(value)
    IN  store(eval(expr.value, st))

eval_logical(expr, st) ==
    LET decided(left) ==
            IF expr.operator.token_type = "Or" THEN is_truthy(left.val)
            ELSE ~is_truthy(left.val)
        decide(left) ==
            IF left.res = "Err" THEN left
            ELSE IF decided(left) THEN left
            ELSE eval(expr.right, left.st)
    IN  decide(eval(expr.left, st))

\* the loop of eval_call over the arguments
RECURSIVE eval_call_arguments(_, _, _, _)
eval_call_arguments(arguments, i, st, acc) ==
    LET step(r) ==
            IF r.res = "Err" THEN r
            ELSE eval_call_arguments(arguments, i + 1, r.st, Append(acc, r.val))
    IN  IF i > Len(arguments) THEN Ok(acc, st)
        ELSE step(eval(arguments[i], st))

eval_call(expr, st) ==
    LET call(callee, arguments) ==
            IF arguments.res = "Err" THEN arguments
            ELSE CallValue(expr, arguments.st.environment, callee.val,
                           arguments.val, arguments.st)
        then_arguments(callee) ==
            IF callee.res = "Err" THEN callee
            ELSE call(callee,
                      eval_call_arguments(expr.arguments, 1, callee.st, <<>>))
    IN  then_arguments(eval(expr.callee, st))

eval_expression(stmt, st) == eval(stmt.expr, st)

eval_print(stmt, st) == Println(eval(stmt.expr, st), st.environment)

eval_var(stmt, st) ==
    DefineVar(stmt.name, eval(stmt.initializer, st), st.environment)

\* the loop of eval_block; `?` leaves with the error and does not pass the
\* assignment that restores self.environment
RECURSIVE eval_block_statements(_, _, _, _)
eval_block_statements(statements, i, previous, st) ==
    LET step(r) ==
            IF r.res = "Err" THEN r
            ELSE IF r.val.t = "ReturnValue"
                 THEN Ok(ReturnValue(r.val.v),
                         [r.st EXCEPT !.environment = previous])
            ELSE eval_block_statements(statements, i + 1, previous, r.st)
    IN  IF i > Len(statements)
        THEN Ok(None, [st EXCEPT !.environment = previous])
        ELSE step(eval(statements[i], st))

eval_block(stmt, st) ==
    LET h == Alloc(st.envs, new_with_enclosing(st.environment))
        scoped_env == Len(h)
        previous == st.environment
    IN  eval_block_statements(stmt.statements, 1, previous,
            [st EXCEPT !.envs = h, !.environment = scoped_env])

eval_if(stmt, st) ==
    LET branch(c) ==
            IF c.res = "Err" THEN c
            ELSE eval(IF is_truthy(c.val) THEN stmt.then_branch
                      ELSE stmt.else_branch, c.st)
    IN  branch(eval(stmt.condition, st))

RECURSIVE eval_while(_, _)
eval_while(stmt, st) ==
    LET again(b) ==
            IF b.res = "Err" THEN b
            ELSE IF b.val.t = "ReturnValue" THEN Ok(ReturnValue(b.val.v), b.st)
            ELSE eval_while(stmt, b.st)
        test(c) ==
            IF c.res = "Err" THEN c
            ELSE IF ~is_truthy(c.val) THEN Ok(None, c.st)
            ELSE again(eval(stmt.body, c.st))
    IN  test(eval(stmt.condition, st))

\* declaration: Rc::clone(&stmt) is the node of the tree itself
eval_function(stmt, st) ==
    LET addr == [tree |-> stmt.name]
        function == Function(FunctionObject(Len(stmt.params), addr, stmt,
                                            st.environment))
    IN  Ok(None,
           Log([st EXCEPT !.envs = define(@, st.environment,
                                          stmt.name.lexeme, function)],
               [ev |-> "declare", name |-> stmt.name, env |-> st.environment,
                val |-> function]))

eval_return(stmt, st) ==
    Returning(IF Len(stmt.value) = 0 THEN Ok(None, st)
              ELSE eval(stmt.value[1], st), st.environment)

\* Evaluator::eval: the match on Evalable and on the node's kind
eval(expr, st) ==
    CASE expr.kind = "Literal" -> eval_literal(expr, st)
      [] expr.kind = "Unary" -> eval_unary(expr, st)
      [] expr.kind = "Binary" -> eval_binary(expr, st)
      [] expr.kind = "Grouping" -> eval_grouping(expr, st)
      [] expr.kind = "NoOp" -> eval_noop(expr, st)
      [] expr.kind = "Variable" -> eval_variable(expr, st)
      [] expr.kind = "Assign" -> eval_assign(expr, st)
      [] expr.kind = "Logical" -> eval_logical(expr, st)
      [] expr.kind = "Call" -> eval_call(expr, st)
      [] expr.kind = "Expression" -> eval_expression(expr, st)
      [] expr.kind = "Print" -> eval_print(expr, st)
      [] expr.kind = "Var" -> eval_var(expr, st)
      [] expr.kind = "Block" -> eval_block(expr, st)
      [] expr.kind = "If" -> eval_if(expr, st)
      [] expr.kind = "While" -> eval_while(expr, st)
      [] expr.kind = "Function" -> eval_function(expr, st)
      [] expr.kind = "Return" -> eval_return(expr, st)

\* Interpreter::interpret had it gone on to the next statement after an
\* error
RECURSIVE interpret_skipping(_, _, _)
interpret_skipping(statements, i, st) ==
    LET step(r) == interpret_skipping(statements, i + 1, r.st)
    IN  IF i > Len(statements) THEN Ok(None, st)
        ELSE step(Stmt_eval(statements[i], st.environment, st))

\* Interpreter::interpret had it ended at a statement that returns
RECURSIVE interpret_stopping(_, _, _)
interpret_stopping(statements, i, st) ==
    LET step(r) ==
            IF r.res = "Err" THEN r
            ELSE IF r.val.t = "ReturnValue" THEN Ok(None, r.st)
            ELSE interpret_stopping(statements, i + 1, r.st)
    IN  IF i > Len(statements) THEN Ok(None, st)
        ELSE step(Stmt_eval(statements[i], st.environment, st))

\* the loop of Interpreter::interpret
RECURSIVE interpret(_, _, _)
interpret(statements, i, st) ==
    LET step(r) ==
            IF r.res = "Err" THEN r ELSE interpret(statements, i + 1, r.st)
    IN  IF i > Len(statements) THEN Ok(None, st)
        ELSE step(Stmt_eval(statements[i], st.environment, st))

(***************************************************************************)
(* The resolver.  rs = [scopes, locals]: Resolver.scopes and the locals of *)
(* the Interpreter the Resolver owns.  A resolve method ends Ok, Err (a    *)
(* static error, passed on by `?`) or Panic; each returns the state it     *)
(* left.  A node's key in locals is its name token.                        *)
(***************************************************************************)
ROk(rs) == [res |-> "Ok", rs |-> rs]

RErr(e, rs) == [res |-> "Err", err |-> e, rs |-> rs]

RPanic(rs) == [res |-> "Panic", rs |-> rs]

begin_scope(rs) == [rs EXCEPT !.scopes = Append(@, EmptyMap)]

\* Vec::pop: nothing happens on an empty stack
end_scope(rs) ==
    IF Len(rs.scopes) = 0 THEN rs
    ELSE [rs EXCEPT !.scopes = SubSeq(@, 1, Len(@) - 1)]

Resolver_declare(rs, name) ==
    IF Len(rs.scopes) = 0 THEN rs
    ELSE [rs EXCEPT !.scopes[Len(rs.scopes)] = Insert(@, name.lexeme, FALSE)]

Resolver_define(rs, name) ==
    IF Len(rs.scopes) = 0 THEN rs
    ELSE [rs EXCEPT !.scopes[Len(rs.scopes)] = Insert(@, name.lexeme, TRUE)]

\* Interpreter::resolve
Interpreter_resolve(loc, expr, depth) == Insert(loc, expr, depth)

\* the loop of resolve_local, i running from the innermost scope outward
\* (i is the index in the Vec plus one); the loop has no break
RECURSIVE resolve_local_loop(_, _, _, _)
resolve_local_loop(rs, expr, name, i) ==
    IF i < 1 THEN rs
    ELSE resolve_local_loop(
             IF name.lexeme \in DOMAIN rs.scopes[i]
             THEN [rs EXCEPT !.locals =
                      Interpreter_resolve(@, expr, Len(rs.scopes) - i)]
             ELSE rs,
             expr, name, i - 1)

\* with no scope, self.scopes.len() - 1 underflows: a debug build panics
\* at the subtraction, a release build at scopes.get(usize::MAX).unwrap()
resolve_local(rs, expr, name) ==
    IF Len(rs.scopes) = 0 THEN RPanic(rs)
    ELSE ROk(resolve_local_loop(rs, expr, name, Len(rs.scopes)))

\* the loop of resolve_function over the parameters
RECURSIVE resolve_params(_, _, _)
resolve_params(rs, params, i) ==
    IF i > Len(params) THEN rs
    ELSE resolve_params(Resolver_define(Resolver_declare(rs, params[i]),
                                        params[i]), params, i + 1)

resolve_function(rs, function) ==
    end_scope(resolve_params(begin_scope(rs), function.params, 1))

RECURSIVE Expr_resolve(_, _)
RECURSIVE Stmt_resolve(_, _)

Literal_resolve(e, rs) == ROk(rs)

Unary_resolve(e, rs) == Expr_resolve(e.expr, rs)

Binary_resolve(e, rs) ==
    LET then_right(l) == IF l.res /= "Ok" THEN l ELSE Expr_resolve(e.right, l.rs)
    IN  then_right(Expr_resolve(e.left, rs))

Grouping_resolve(e, rs) == Expr_resolve(e.expr, rs)

NoOp_resolve(e, rs) == ROk(rs)

Variable_resolve(e, rs) ==
    IF /\ Len(rs.scopes) /= 0
       /\ e.name.lexeme \in DOMAIN rs.scopes[Len(rs.scopes)]
       /\ rs.scopes[Len(rs.scopes)][e.name.lexeme] = FALSE
    THEN RErr(LoxError(e.name.line,
                       "Can't read local variable in it's own initializer",
                       e.name.position), rs)
    ELSE resolve_local(rs, e.name, e.name)

Assign_resolve(e, rs) ==
    LET then_local(v) ==
            IF v.res /= "Ok" THEN v ELSE resolve_local(v.rs, e.name, e.name)
    IN  then_local(Expr_resolve(e.value, rs))

Logical_resolve(e, rs) ==
    LET then_right(l) == IF l.res /= "Ok" THEN l ELSE Expr_resolve(e.right, l.rs)
    IN  then_right(Expr_resolve(e.left, rs))

\* the loop of Call::resolve over the arguments
RECURSIVE Call_resolve_arguments(_, _, _)
Call_resolve_arguments(arguments, i, rs) ==
    LET step(r) ==
            IF r.res /= "Ok" THEN r
            ELSE Call_resolve_arguments(arguments, i + 1, r.rs)
    IN  IF i > Len(arguments) THEN ROk(rs)
        ELSE step(Expr_resolve(arguments[i], rs))

Call_resolve(e, rs) ==
    LET then_arguments(c) ==
            IF c.res /= "Ok" THEN c
            ELSE Call_resolve_arguments(e.arguments, 1, c.rs)
    IN  then_arguments(Expr_resolve(e.callee, rs))

Expression_resolve(s, rs) == Expr_resolve(s.expr, rs)

Print_resolve(s, rs) == Expr_resolve(s.expr, rs)

\* Var::resolve had it defined the name before it resolved the initializer
Var_resolve_defined_early(s, rs) ==
    Expr_resolve(s.initializer,
                 Resolver_define(Resolver_declare(rs, s.name), s.name))

Var_resolve(s, rs) ==
    LET then_define(i) ==
            IF i.res /= "Ok" THEN i ELSE ROk(Resolver_define(i.rs, s.name))
    IN  then_define(Expr_resolve(s.initializer, Resolver_declare(rs, s.name)))

\* the loop of Block::resolve; `?` leaves before end_scope
RECURSIVE Block_resolve_statements(_, _, _)
Block_resolve_statements(statements, i, rs) ==
    LET step(r) ==
            IF r.res /= "Ok" THEN r
            ELSE Block_resolve_statements(statements, i + 1, r.rs)
    IN  IF i > Len(statements) THEN ROk(end_scope(rs))
        ELSE step(Stmt_resolve(statements[i], rs))

Block_resolve(s, rs) ==
    Block_resolve_statements(s.statements, 1, begin_scope(rs))

\* the resolution of the two branches of If::resolve, one after the other
If_resolve_branches(s, rs) ==
    LET then_else(t) ==
            IF t.res /= "Ok" THEN t ELSE Stmt_resolve(s.else_branch, t.rs)
    IN  then_else(Stmt_resolve(s.then_branch, rs))

If_resolve(s, rs) ==
    LET then_branches(c) ==
            IF c.res /= "Ok" THEN c ELSE If_resolve_branches(s, c.rs)
    IN  then_branches(Expr_resolve(s.condition, rs))

While_resolve(s, rs) ==
    LET then_body(c) == IF c.res /= "Ok" THEN c ELSE Stmt_resolve(s.body, c.rs)
    IN  then_body(Expr_resolve(s.condition, rs))

Function_resolve(s, rs) ==
    ROk(resolve_function(Resolver_define(Resolver_declare(rs, s.name), s.name),
                         s))

Return_resolve(s, rs) ==
    IF Len(s.value) = 0 THEN ROk(rs) ELSE Expr_resolve(s.value[1], rs)

Expr_resolve(e, rs) ==
    CASE e.kind = "Literal" -> Literal_resolve(e, rs)
      [] e.kind = "Unary" -> Unary_resolve(e, rs)
      [] e.kind = "Binary" -> Binary_resolve(e, rs)
      [] e.kind = "Grouping" -> Grouping_resolve(e, rs)
      [] e.kind = "NoOp" -> NoOp_resolve(e, rs)
      [] e.kind = "Variable" -> Variable_resolve(e, rs)
      [] e.kind = "Assign" -> Assign_resolve(e, rs)
      [] e.kind = "Logical" -> Logical_resolve(e, rs)
      [] e.kind = "Call" -> Call_resolve(e, rs)

Stmt_resolve(s, rs) ==
    CASE s.kind = "Expression" -> Expression_resolve(s, rs)
      [] s.kind = "Print" -> Print_resolve(s, rs)
      [] s.kind = "Var" -> Var_resolve(s, rs)
      [] s.kind = "Block" -> Block_resolve(s, rs)
      [] s.kind = "If" -> If_resolve(s, rs)
      [] s.kind = "While" -> While_resolve(s, rs)
      [] s.kind = "Function" -> Function_resolve(s, rs)
      [] s.kind = "Return" -> Return_resolve(s, rs)

\* The pass over a program.  No file of the repository drives the
\* resolver; the pass is the one the specification describes: every
\* top-level statement is resolved in turn and the static errors are
\* collected.  A panic ends the process.
RECURSIVE resolve_program(_, _, _, _)
resolve_program(statements, i, rs, errs) ==
    LET step(r) ==
            IF r.res = "Panic"
            THEN [res |-> "Panic", rs |-> r.rs, errs |-> errs]
            ELSE resolve_program(statements, i + 1, r.rs,
                     IF r.res = "Err" THEN Append(errs, r.err) ELSE errs)
    IN  IF i > Len(statements) THEN [res |-> "Ok", rs |-> rs, errs |-> errs]
        ELSE step(Stmt_resolve(statements[i], rs))

(***************************************************************************)
(* The scanner.  A source is a sequence of characters, each a string of    *)
(* one character.  A String of Rust is its UTF-8 bytes: source.len() and   *)
(* the slices source[a..b] count bytes, chars().nth(n) counts characters,  *)
(* and the scanner uses the one index for both.  A token of the scanner    *)
(* is [token_type, lexeme, literal, line]; literal is an Option.  A        *)
(* result is [res, sc] with res "Ok", "Err" (with err) or "Panic".         *)
(***************************************************************************)
Lower ==
    {"a", "b", "c", "d", "e", "f", "g", "h", "i", "j", "k", "l", "m", "n",
     "o", "p", "q", "r", "s", "t", "u", "v", "w", "x", "y", "z"}

Upper ==
    {"A", "B", "C", "D", "E", "F", "G", "H", "I", "J", "K", "L", "M", "N",
     "O", "P", "Q", "R", "S", "T", "U", "V", "W", "X", "Y", "Z"}

Digits == {"0", "1", "2", "3", "4", "5", "6", "7", "8", "9"}

\* the characters of one byte that the sources are written in; every other
\* character takes more than one byte, two for the ones used here
Ascii ==
    Lower \cup Upper \cup Digits
    \cup {"_", " ", "\r", "\t", "\n", "\"", "(", ")", "{", "}", ",", ".",
          "-", "+", ";", "*", "!", "=", "<", ">", "/", "@", "#"}

\* the bytes of a String: a character of one byte is itself, a character
\* of two is itself and a continuation byte
RECURSIVE Bytes(_)
Bytes(source) ==
    IF Len(source) = 0 THEN <<>>
    ELSE (IF source[1] \in Ascii THEN <<source[1]>>
          ELSE <<source[1], "CONTINUATION">>) \o Bytes(Tail(source))

\* the characters of a sequence as one string
RECURSIVE Join(_)
Join(chars) ==
    IF Len(chars) = 0 THEN "" ELSE chars[1] \o Join(Tail(chars))

\* &source[a..b]: the characters of the bytes a..b-1, or a panic when the
\* range leaves the string or cuts a character
Slice(source, a, b) ==
    LET bytes == Bytes(source)
        boundary(k) ==
            k = Len(bytes) \/ (k < Len(bytes) /\ bytes[k + 1] /= "CONTINUATION")
    IN  IF a <= b /\ boundary(a) /\ boundary(b)
        THEN [res |-> "Ok",
              text |-> SelectSeq(SubSeq(bytes, a + 1, b),
                                 LAMBDA c : c /= "CONTINUATION")]
        ELSE [res |-> "Panic"]

\* source.chars().nth(n).unwrap(): "PANIC" stands for the panic of unwrap
char_at(source, n) ==
    IF n < Len(source) THEN source[n + 1] ELSE "PANIC"

Scanner_new(source) ==
    [source |-> source, tokens |-> <<>>, start |-> 0, current |-> 0,
     line |-> 1]

Scanner_is_at_end(sc) == sc.current >= Len(Bytes(sc.source))

\* "NUL" stands for '\0'
Scanner_peek(sc) ==
    IF Scanner_is_at_end(sc) THEN "NUL" ELSE char_at(sc.source, sc.current)

Scanner_peek_max(sc) ==
    IF sc.current + 1 >= Len(Bytes(sc.source)) THEN "NUL"
    ELSE char_at(sc.source, sc.current + 1)

is_alpha(c) == c \in Lower \cup Upper \cup {"_"}

is_digit(c) == c \in Digits

keywords(candidate) ==
    CASE candidate = "and" -> <<"And">>
      [] candidate = "class" -> <<"Class">>
      [] candidate = "else" -> <<"Else">>
      [] candidate = "false" -> <<"False">>
      [] candidate = "for" -> <<"For">>
      [] candidate = "fun" -> <<"Fun">>
      [] candidate = "if" -> <<"If">>
      [] candidate = "nil" -> <<"Nil">>
      [] candidate = "or" -> <<"Or">>
      [] candidate = "print" -> <<"Print">>
      [] candidate = "return" -> <<"Return">>
      [] candidate = "super" -> <<"Super">>
      [] candidate = "this" -> <<"This">>
      [] candidate = "true" -> <<"True">>
      [] candidate = "var" -> <<"Var">>
      [] candidate = "while" -> <<"While">>
      [] OTHER -> <<>>

\* add_token with the token type and the literal of the caller
add_token(sc, token_type, literal) ==
    LET push(text) ==
            IF text.res = "Panic" THEN [res |-> "Panic", sc |-> sc]
            ELSE [res |-> "Ok",
                  sc |-> [sc EXCEPT !.tokens =
                             Append(@, [token_type |-> token_type,
                                        lexeme |-> Join(text.text),
                                        literal |-> literal,
                                        line |-> sc.line])]]
    IN  push(Slice(sc.source, sc.start, sc.current))

\* a loop `while cond(self.peek()) { self.advance(); }` of identifier and
\* number: the scanner after it, or a panic of peek
RECURSIVE advance_while(_, _)
advance_while(sc, class) ==
    LET c == Scanner_peek(sc)
    IN  IF c = "PANIC" THEN [res |-> "Panic", sc |-> sc]
        ELSE IF c \in class
        THEN advance_while([sc EXCEPT !.current = @ + 1], class)
        ELSE [res |-> "Ok", sc |-> sc]

identifier(sc) ==
    LET name(r) ==
            LET text == Slice(r.sc.source, r.sc.start, r.sc.current)
                token_type ==
                    IF keywords(Join(text.text)) /= <<>>
                    THEN keywords(Join(text.text))[1] ELSE "Identifier"
            IN  IF r.res = "Panic" THEN r
                ELSE IF text.res = "Panic" THEN [res |-> "Panic", sc |-> r.sc]
                ELSE add_token(r.sc, token_type, <<>>)
    IN  name(advance_while(sc, Lower \cup Upper \cup {"_"} \cup Digits))

\* whether str::parse::<f64> succeeds on a text of the characters used
\* here: digits, at least one, with at most one '.' among them; the unwrap
\* of number panics otherwise (the slice is of bytes, and is another text
\* than the characters scanned once the source has a longer character)
is_f64(text) ==
    /\ \A i \in DOMAIN text : text[i] \in Digits \cup {"."}
    /\ \E i \in DOMAIN text : text[i] \in Digits
    /\ Cardinality({i \in DOMAIN text : text[i] = "."}) <= 1

\* str::parse::<f64> of digits with at most one '.' among them
RECURSIVE parse_f64(_, _, _, _)
parse_f64(text, i, num, den) ==
    IF i > Len(text) THEN Fin(num, IF den = 0 THEN 1 ELSE den)
    ELSE IF text[i] = "." THEN parse_f64(text, i + 1, num, 1)
    ELSE parse_f64(text, i + 1,
                   num * 10 + (CHOOSE d \in 0..9 : ToString(d) = text[i]),
                   IF den = 0 THEN 0 ELSE den * 10)

number(sc) ==
    LET literal(r) ==
            LET text == Slice(r.sc.source, r.sc.start, r.sc.current)
            IN  IF r.res = "Panic" THEN r
                ELSE IF text.res = "Panic" THEN [res |-> "Panic", sc |-> r.sc]
                ELSE IF ~is_f64(text.text)
                THEN [res |-> "Panic", sc |-> r.sc]
                ELSE add_token(r.sc, "Number",
                               <<[k |-> "Num",
                                  n |-> parse_f64(text.text, 1, 0, 0)]>>)
        fraction(r) ==
            IF r.res = "Panic" THEN r
            ELSE IF Scanner_peek(r.sc) = "PANIC"
            THEN [res |-> "Panic", sc |-> r.sc]
            ELSE IF Scanner_peek(r.sc) = "."
            THEN IF Scanner_peek_max(r.sc) = "PANIC"
                 THEN [res |-> "Panic", sc |-> r.sc]
                 ELSE IF is_digit(Scanner_peek_max(r.sc))
                 THEN advance_while([r.sc EXCEPT !.current = @ + 1], Digits)
                 ELSE r
            ELSE r
    IN  literal(fraction(advance_while(sc, Digits)))

\* the loop of string: up to a '"' or the end
RECURSIVE string_loop(_)
string_loop(sc) ==
    LET c == Scanner_peek(sc)
    IN  IF c = "PANIC" THEN [res |-> "Panic", sc |-> sc]
        ELSE IF c /= "\"" /\ ~Scanner_is_at_end(sc)
        THEN string_loop([sc EXCEPT !.current = @ + 1,
                                    !.line = IF c = "\n" THEN @ + 1 ELSE @])
        ELSE [res |-> "Ok", sc |-> sc]

string(sc) ==
    LET close(r) ==
            LET after == [r.sc EXCEPT !.current = @ + 1]
                value == Slice(after.source, after.start + 1, after.current - 1)
            IN  IF r.res = "Panic" THEN r
                ELSE IF Scanner_is_at_end(r.sc)
                THEN [res |-> "Err", sc |-> r.sc,
                      err |-> LoxError(r.sc.line, "Unterminated string",
                                       r.sc.current)]
                ELSE IF value.res = "Panic" THEN [res |-> "Panic", sc |-> after]
                ELSE add_token(after, "String",
                               <<[k |-> "String", s |-> Join(value.text)]>>)
    IN  close(string_loop(sc))

\* next_char(expected) and the token of each answer
next_char(sc, expected, matched, single) ==
    LET c == char_at(sc.source, sc.current)
    IN  IF Scanner_is_at_end(sc) THEN add_token(sc, single, <<>>)
        ELSE IF c = "PANIC" THEN [res |-> "Panic", sc |-> sc]
        ELSE IF c /= expected THEN add_token(sc, single, <<>>)
        ELSE add_token([sc EXCEPT !.current = @ + 1], matched, <<>>)

\* the loop of a comment: up to a newline or the end
RECURSIVE comment_loop(_)
comment_loop(sc) ==
    LET c == Scanner_peek(sc)
    IN  IF c = "PANIC" THEN [res |-> "Panic", sc |-> sc]
        ELSE IF c /= "\n" /\ ~Scanner_is_at_end(sc)
        THEN comment_loop([sc EXCEPT !.current = @ + 1])
        ELSE [res |-> "Ok", sc |-> sc]

\* scan_token; sc0.start is already sc0.current
scan_token(sc0) ==
    LET c == char_at(sc0.source, sc0.current)
        sc == [sc0 EXCEPT !.current = @ + 1]
    IN  CASE c = "PANIC" -> [res |-> "Panic", sc |-> sc]
          [] c = "(" -> add_token(sc, "LeftParen", <<>>)
          [] c = ")" -> add_token(sc, "RightParen", <<>>)
          [] c = "{" -> add_token(sc, "LeftBrace", <<>>)
          [] c = "}" -> add_token(sc, "RightBrace", <<>>)
          [] c = "," -> add_token(sc, "Comma", <<>>)
          [] c = "." -> add_token(sc, "Dot", <<>>)
          [] c = "-" -> add_token(sc, "Minus", <<>>)
          [] c = "+" -> add_token(sc, "Plus", <<>>)
          [] c = ";" -> add_token(sc, "Semicolon", <<>>)
          [] c = "*" -> add_token(sc, "Star", <<>>)
          [] c = "!" -> next_char(sc, "=", "BangEqual", "Bang")
          [] c = "=" -> next_char(sc, "=", "EqualEqual", "Equal")
          [] c = "<" -> next_char(sc, "=", "LessEqual", "Less")
          [] c = ">" -> next_char(sc, "=", "GreaterEqual", "Greater")
          [] c = "/" ->
                IF ~Scanner_is_at_end(sc)
                   /\ char_at(sc.source, sc.current) = "PANIC"
                THEN [res |-> "Panic", sc |-> sc]
                ELSE IF ~Scanner_is_at_end(sc)
                        /\ char_at(sc.source, sc.current) = "/"
                THEN comment_loop([sc EXCEPT !.current = @ + 1])
                ELSE add_token(sc, "Slash", <<>>)
          [] c \in {" ", "\r", "\t"} -> [res |-> "Ok", sc |-> sc]
          [] c = "\n" -> [res |-> "Ok", sc |-> [sc EXCEPT !.line = @ + 1]]
          [] c = "\"" -> string(sc)
          [] c \in Digits -> number(sc)
          [] c \in Lower \cup Upper -> identifier(sc)
          [] OTHER ->
                [res |-> "Err", sc |-> sc,
                 err |-> LoxError(sc.line, "Unexpected character.", sc.current)]

\* the loop of scan_tokens and what follows it
RECURSIVE scan_tokens_loop(_, _)
scan_tokens_loop(sc, lexical_errors) ==
    LET step(r) ==
            IF r.res = "Panic" THEN [res |-> "Panic", sc |-> r.sc]
            ELSE scan_tokens_loop(r.sc,
                     IF r.res = "Err" THEN Append(lexical_errors, r.err)
                     ELSE lexical_errors)
        eof == [sc EXCEPT !.tokens =
                   Append(@, [token_type |-> "EOF", lexeme |-> "",
                              literal |-> <<>>, line |-> sc.line])]
    IN  IF ~Scanner_is_at_end(sc)
        THEN step(scan_token([sc EXCEPT !.start = sc.current]))
        ELSE IF Len(lexical_errors) = 0
        THEN [res |-> "Ok", sc |-> eof, tokens |-> eof.tokens]
        ELSE [res |-> "Err", sc |-> eof, errors |-> lexical_errors]

scan_tokens(sc) == scan_tokens_loop(sc, <<>>)

(***************************************************************************)
(* The parser.  p = [tokens, statements, errors, current] is the Parser;   *)
(* its tokens are [token_type, lexeme, literal, line, position], the last  *)
(* one EOF, and tokens[current + 1] is the next one.  A parsing method     *)
(* returns Ok(node, p) or Err(error, p), p the parser as the method left   *)
(* it; a `?` passes the Err on.                                            *)
(***************************************************************************)
Parser_new(tokens) ==
    [tokens |-> tokens, statements |-> <<>>, errors |-> <<>>, current |-> 0]

Parser_peek(p) == p.tokens[p.current + 1]

Parser_previous(p) == p.tokens[p.current]

Parser_is_at_end(p) == Parser_peek(p).token_type = "EOF"

check(p, token_type) ==
    IF Parser_is_at_end(p) THEN FALSE
    ELSE Parser_peek(p).token_type = token_type

\* the parser that advance leaves; the token it returns is the previous one
Parser_advance(p) ==
    IF ~Parser_is_at_end(p) THEN [p EXCEPT !.current = @ + 1] ELSE p

\* the answer of is_of; when it is true the parser goes on as Parser_advance
is_of(p, token_types) == \E token_type \in token_types : check(p, token_type)

consume(p, token_type, message) ==
    IF check(p, token_type) THEN Ok(Parser_peek(p), Parser_advance(p))
    ELSE Err(LoxError(Parser_peek(p).line, message, Parser_peek(p).position),
             p)

\* `r?` followed by `consume(token_type, message)?`, keeping the value of r
Expect(r, token_type, message) ==
    LET c == consume(r.st, token_type, message)
    IN  IF r.res = "Err" THEN r
        ELSE IF c.res = "Err" THEN c
        ELSE Ok(r.val, c.st)

RECURSIVE synchronize_loop(_)
synchronize_loop(p) ==
    IF Parser_is_at_end(p) THEN p
    ELSE IF Parser_previous(p).token_type = "Semicolon" THEN p
    ELSE IF Parser_peek(p).token_type
                \in {"Class", "Fun", "Var", "For", "If", "While", "Print",
                     "Return"}
    THEN p
    ELSE synchronize_loop(Parser_advance(p))

\* advance ends with previous(), moved or not, and previous() reads
\* tokens[current - 1]: on EOF with current = 0 the subtraction underflows,
\* a panic in a debug build, and tokens.get(usize::MAX).unwrap() panics in
\* a release build.  A parser that has panicked has no position.
Panicked(p) == [p EXCEPT !.current = -1]

\* synchronize had it not skipped anything
synchronize_stays(p) == p

synchronize(p) ==
    IF Parser_is_at_end(p) /\ p.current = 0 THEN Panicked(p)
    ELSE synchronize_loop(Parser_advance(p))

RECURSIVE declaration(_)
RECURSIVE statement(_)
RECURSIVE expression(_)
RECURSIVE unary(_)
RECURSIVE binary_loop(_, _)

primary(p) ==
    LET t == Parser_peek(p)
        q == Parser_advance(p)
        group(r) ==
            LET close(c) ==
                    IF c.res = "Err" THEN c ELSE Ok(Grouping(r.val), c.st)
            IN  IF r.res = "Err" THEN r
                ELSE close(consume(r.st, "RightParen",
                                   "Expect ')' after expression."))
    IN  CASE is_of(p, {"False"}) -> Ok(Literal([k |-> "False"]), q)
          [] is_of(p, {"True"}) -> Ok(Literal([k |-> "True"]), q)
          [] is_of(p, {"Nil"}) -> Ok(Literal([k |-> "Nil"]), q)
          [] is_of(p, {"Number", "String"}) -> Ok(Literal(t.literal[1]), q)
          [] is_of(p, {"LeftParen"}) -> group(expression(q))
          [] is_of(p, {"Identifier"}) -> Ok(Variable(t), q)
          [] OTHER ->
               Err(LoxError(t.line,
                            "Expected expression at token " \o t.lexeme \o ".",
                            t.position), p)

\* the loop of finish_call over the arguments
RECURSIVE finish_call_arguments(_, _)
finish_call_arguments(p, arguments) ==
    LET next(r) ==
            IF r.res = "Err" THEN r
            ELSE IF is_of(r.st, {"Comma"})
            THEN finish_call_arguments(Parser_advance(r.st),
                                       Append(arguments, r.val))
            ELSE Ok(Append(arguments, r.val), r.st)
    IN  IF Len(arguments) >= 255
        THEN Err(LoxError(Parser_peek(p).line,
                          "Can't have more than 255 arguments.",
                          Parser_peek(p).position), p)
        ELSE next(expression(p))

finish_call(p, callee) ==
    LET close(a) ==
            IF a.res = "Err" THEN a
            ELSE Ok(Call(callee, a.val.paren, a.val.arguments), a.st)
        paren(a) ==
            LET c == consume(a.st, "RightParen",
                             "Expected ')' after arguments.")
            IN  IF a.res = "Err" THEN a
                ELSE IF c.res = "Err" THEN c
                ELSE Ok([paren |-> c.val, arguments |-> a.val], c.st)
    IN  close(paren(IF ~check(p, "RightParen")
                    THEN finish_call_arguments(p, <<>>)
                    ELSE Ok(<<>>, p)))

\* the loop of call, r the callee so far
RECURSIVE call_loop(_)
call_loop(r) ==
    IF r.res = "Err" THEN r
    ELSE IF is_of(r.st, {"LeftParen"})
    THEN call_loop(finish_call(Parser_advance(r.st), r.val))
    ELSE r

call(p) == call_loop(primary(p))

unary(p) ==
    LET operator == Parser_peek(p)
        wrap(right) ==
            IF right.res = "Err" THEN right
            ELSE Ok(Unary(operator, right.val), right.st)
    IN  IF is_of(p, {"Bang", "Minus"}) THEN wrap(unary(Parser_advance(p)))
        ELSE call(p)

factor(p) == binary_loop(6, unary(p))

term(p) == binary_loop(5, factor(p))

comparison(p) == binary_loop(4, term(p))

equality(p) == binary_loop(3, comparison(p))

and(p) == binary_loop(2, equality(p))

or(p) == binary_loop(1, and(p))

\* the while loop that or (1), and (2), equality (3), comparison (4),
\* term (5) and factor (6) share: r is the expression so far, and each
\* operator of the level takes an operand of the next level to its right
binary_loop(level, r) ==
    LET token_types ==
            CASE level = 1 -> {"Or"}
              [] level = 2 -> {"And"}
              [] level = 3 -> {"BangEqual", "EqualEqual"}
              [] level = 4 -> {"Greater", "GreaterEqual", "Less", "LessEqual"}
              [] level = 5 -> {"Minus", "Plus"}
              [] level = 6 -> {"Slash", "Star"}
        operand(p) ==
            CASE level = 1 -> and(p)
              [] level = 2 -> equality(p)
              [] level = 3 -> comparison(p)
              [] level = 4 -> term(p)
              [] level = 5 -> factor(p)
              [] level = 6 -> unary(p)
        operator == Parser_peek(r.st)
        join(right) ==
            IF right.res = "Err" THEN right
            ELSE binary_loop(level,
                     Ok(IF level <= 2 THEN Logical(r.val, operator, right.val)
                        ELSE Binary(r.val, operator, right.val), right.st))
    IN  IF r.res = "Err" THEN r
        ELSE IF is_of(r.st, token_types)
        THEN join(operand(Parser_advance(r.st)))
        ELSE r

RECURSIVE assignment(_)
assignment(p) ==
    LET target(expr) ==
            LET equals == Parser_peek(expr.st)
                assigned(value) ==
                    IF value.res = "Err" THEN value
                    ELSE IF expr.val.kind = "Variable"
                    THEN Ok(Assign(expr.val.name, value.val), value.st)
                    ELSE Err(LoxError(equals.line,
                                      "Invalid assignment target.",
                                      equals.position), value.st)
            IN  IF expr.res = "Err" THEN expr
                ELSE IF is_of(expr.st, {"Equal"})
                THEN assigned(assignment(Parser_advance(expr.st)))
                ELSE expr
    IN  target(or(p))

expression(p) == assignment(p)

expression_statement(p) ==
    LET done(c) == IF c.res = "Err" THEN c ELSE Ok(Expression(c.val), c.st)
    IN  done(Expect(expression(p), "Semicolon", "Expected ';' after value."))

print_statement(p) ==
    LET done(c) == IF c.res = "Err" THEN c ELSE Ok(PrintStmt(c.val), c.st)
    IN  done(Expect(expression(p), "Semicolon", "Expected ';' after value."))

\* the loop of block over the declarations up to the closing brace
RECURSIVE block_loop(_, _)
block_loop(p, statements) ==
    LET push(d) ==
            IF d.res = "Err" THEN d
            ELSE block_loop(d.st, Append(statements, d.val))
    IN  IF ~check(p, "RightBrace") /\ ~Parser_is_at_end(p)
        THEN push(declaration(p))
        ELSE Ok(statements, p)

block(p) ==
    LET done(c) == IF c.res = "Err" THEN c ELSE Ok(Block(c.val, FALSE), c.st)
    IN  done(Expect(block_loop(p, <<>>), "RightBrace",
                    "Expected '}' after block."))

if_statement(p) ==
    LET else_(condition, then_branch) ==
            LET make(e) ==
                    IF e.res = "Err" THEN e
                    ELSE Ok(If(condition, then_branch.val, e.val), e.st)
            IN  IF then_branch.res = "Err" THEN then_branch
                ELSE IF is_of(then_branch.st, {"Else"})
                THEN make(statement(Parser_advance(then_branch.st)))
                ELSE Ok(If(condition, then_branch.val,
                           Expression(Literal([k |-> "Nil"]))),
                        then_branch.st)
        then(c) ==
            IF c.res = "Err" THEN c ELSE else_(c.val, statement(c.st))
        cond(l) ==
            IF l.res = "Err" THEN l
            ELSE then(Expect(expression(l.st), "RightParen",
                             "Expected ')' after condition."))
    IN  cond(consume(p, "LeftParen", "Expected '(' after 'if'."))

while_statement(p) ==
    LET body(c) ==
            LET make(b) ==
                    IF b.res = "Err" THEN b ELSE Ok(While(c.val, b.val), b.st)
            IN  IF c.res = "Err" THEN c ELSE make(statement(c.st))
        cond(l) ==
            IF l.res = "Err" THEN l
            ELSE body(Expect(expression(l.st), "RightParen",
                             "Expected ')' after condition"))
    IN  cond(consume(p, "LeftParen", "Expected '(' after 'while'"))

var_declaration(p) ==
    LET declare(name, initializer) ==
            LET done(c) ==
                    IF c.res = "Err" THEN c ELSE Ok(Var(name, c.val), c.st)
            IN  done(Expect(initializer, "Semicolon",
                            "Expected ';' after variable declaration."))
        init(n) ==
            IF n.res = "Err" THEN n
            ELSE declare(n.val,
                         IF is_of(n.st, {"Equal"})
                         THEN expression(Parser_advance(n.st))
                         ELSE Ok(Literal([k |-> "Nil"]), n.st))
    IN  init(consume(p, "Identifier", "Expected variable name."))

\* the end of for_statement had it put the increment before the body
for_loop_increment_first(initializer, condition, increment, statement_) ==
    LET body ==
            IF increment /= <<>>
            THEN Block(<<Expression(increment[1]), statement_>>, FALSE)
            ELSE statement_
    IN  IF initializer /= <<>>
        THEN Block(<<initializer[1], While(condition, body)>>, FALSE)
        ELSE While(condition, body)

\* the end of for_statement: the loop made of the clauses and the
\* statement.  An initializer or increment that is absent is <<>>
\* (initializer_null, increment_null), and <<node>> otherwise
for_loop(initializer, condition, increment, statement_) ==
    LET body ==
            IF increment /= <<>>
            THEN Block(<<statement_, Expression(increment[1])>>, FALSE)
            ELSE statement_
    IN  IF initializer /= <<>>
        THEN Block(<<initializer[1], While(condition, body)>>, FALSE)
        ELSE While(condition, body)

for_statement(p) ==
    LET some(r) == IF r.res = "Err" THEN r ELSE Ok(<<r.val>>, r.st)
        body(initializer, condition, increment) ==
            LET make(b) ==
                    IF b.res = "Err" THEN b
                    ELSE Ok(for_loop(initializer, condition, increment.val,
                                     b.val), b.st)
            IN  IF increment.res = "Err" THEN increment
                ELSE make(statement(increment.st))
        incr(initializer, condition) ==
            IF condition.res = "Err" THEN condition
            ELSE body(initializer, condition.val,
                      Expect(IF ~check(condition.st, "RightParen")
                             THEN some(expression(condition.st))
                             ELSE Ok(<<>>, condition.st),
                             "RightParen", "Expected ')' after 'for' clause."))
        cond(initializer) ==
            IF initializer.res = "Err" THEN initializer
            ELSE incr(initializer.val,
                      Expect(IF ~check(initializer.st, "Semicolon")
                             THEN expression(initializer.st)
                             ELSE Ok(Literal([k |-> "True"]), initializer.st),
                             "Semicolon", "Expected ';' after loop condition."))
        init(l) ==
            IF l.res = "Err" THEN l
            ELSE cond(IF is_of(l.st, {"Semicolon"})
                      THEN Ok(<<>>, Parser_advance(l.st))
                      ELSE IF is_of(l.st, {"Var"})
                      THEN some(var_declaration(Parser_advance(l.st)))
                      ELSE some(expression_statement(l.st)))
    IN  init(consume(p, "LeftParen", "Expected '(' after 'for'."))

\* the keyword has been taken
return_statement(p) ==
    LET keyword == Parser_previous(p)
        some(r) == IF r.res = "Err" THEN r ELSE Ok(<<r.val>>, r.st)
        done(c) == IF c.res = "Err" THEN c ELSE Ok(Return(keyword, c.val), c.st)
    IN  done(Expect(IF ~check(p, "Semicolon") THEN some(expression(p))
                    ELSE Ok(<<>>, p),
                    "Semicolon", "Expected ';' after return value."))

statement(p) ==
    IF is_of(p, {"Print"}) THEN print_statement(Parser_advance(p))
    ELSE IF is_of(p, {"LeftBrace"}) THEN block(Parser_advance(p))
    ELSE IF is_of(p, {"If"}) THEN if_statement(Parser_advance(p))
    ELSE IF is_of(p, {"While"}) THEN while_statement(Parser_advance(p))
    ELSE IF is_of(p, {"For"}) THEN for_statement(Parser_advance(p))
    ELSE IF is_of(p, {"Return"}) THEN return_statement(Parser_advance(p))
    ELSE expression_statement(p)

\* the loop of function over the parameters
RECURSIVE function_parameters(_, _)
function_parameters(p, parameters) ==
    LET next(c) ==
            IF c.res = "Err" THEN c
            ELSE IF is_of(c.st, {"Comma"})
            THEN function_parameters(Parser_advance(c.st),
                                     Append(parameters, c.val))
            ELSE Ok(Append(parameters, c.val), c.st)
    IN  IF Len(parameters) >= 255
        THEN Err(LoxError(Parser_peek(p).line,
                          "Can't have more than 255 parameters.",
                          Parser_peek(p).position), p)
        ELSE next(consume(p, "Identifier", "Expected parameter name"))

\* block returns a Block, so the arm for a body of another kind is never
\* taken
function(p, kind) ==
    LET body(name, open) ==
            LET make(b) ==
                    IF b.res = "Err" THEN b
                    ELSE Ok(FunctionStmt(name, open.val, b.val.statements),
                            b.st)
            IN  IF open.res = "Err" THEN open ELSE make(block(open.st))
        parameters(n) ==
            IF n.res = "Err" THEN n
            ELSE body(n.val,
                      Expect(Expect(IF ~check(n.st, "RightParen")
                                    THEN function_parameters(n.st, <<>>)
                                    ELSE Ok(<<>>, n.st),
                                    "RightParen",
                                    "Expected ')' after parameters."),
                             "LeftBrace",
                             "Expected '{' before " \o kind \o " body."))
    IN  parameters(Expect(consume(p, "Identifier",
                                  "Expected " \o kind \o " name."),
                          "LeftParen",
                          "Expected '(' after " \o kind \o " name."))

declaration(p) ==
    LET recover(result) ==
            IF result.res = "Err"
            THEN Err(result.err, synchronize(result.st))
            ELSE result
    IN  recover(IF is_of(p, {"Fun"})
                THEN function(Parser_advance(p), "function")
                ELSE IF is_of(p, {"Var"})
                THEN var_declaration(Parser_advance(p))
                ELSE statement(p))

\* one iteration of the loop of parse
parse_iteration(p) ==
    LET record(d) ==
            IF d.res = "Ok"
            THEN [d.st EXCEPT !.statements = Append(@, d.val)]
            ELSE [d.st EXCEPT !.errors = Append(@, d.err)]
    IN  record(declaration(p))

RECURSIVE parse(_)
parse(p) ==
    LET record(d) ==
            IF d.res = "Ok"
            THEN parse([d.st EXCEPT !.statements = Append(@, d.val)])
            ELSE parse([d.st EXCEPT !.errors = Append(@, d.err)])
    IN  IF ~Parser_is_at_end(p) THEN record(declaration(p)) ELSE p

(***************************************************************************)
(* Programs.  Each is the tree the parser builds for the source in the     *)
(* comment above it.  A token's line is the number of the program and its  *)
(* position the offset of the token in the source, so that no two tokens   *)
(* of the pool are equal, as no two nodes share an address.                *)
(***************************************************************************)
Id(fam, a, b) == [fam |-> fam, a |-> a, b |-> b]

\*   fun mk() { var i = 0; fun inc() { i = i + 1; return i; } return inc; }
\*   var c = mk(); print c(); print c(); print c();
P_counter ==
    [id |-> Id("counter", "", ""),
      statements |-> <<FunctionStmt(Token("Identifier", "mk", 1, 4), <<>>,
      <<Var(Token("Identifier", "i", 1, 15), Literal([k |-> "Num",
      n |-> Fin(0, 1)])), FunctionStmt(Token("Identifier", "inc", 1, 26),
      <<>>, <<Expression(Assign(Token("Identifier", "i", 1, 34),
      Binary(Variable(Token("Identifier", "i", 1, 38)), Token("Plus", "+", 1,
      40), Literal([k |-> "Num", n |-> Fin(1, 1)])))), Return(Token("Return",
      "return", 1, 45), <<Variable(Token("Identifier", "i", 1, 52))>>)>>),
      Return(Token("Return", "return", 1, 57), <<Variable(Token("Identifier",
      "inc", 1, 64))>>)>>), Var(Token("Identifier", "c", 1, 75),
      Call(Variable(Token("Identifier", "mk", 1, 79)), Token("RightParen",
      ")", 1, 82), <<>>)), PrintStmt(Call(Variable(Token("Identifier", "c",
      1, 91)), Token("RightParen", ")", 1, 93), <<>>)),
      PrintStmt(Call(Variable(Token("Identifier", "c", 1, 102)),
      Token("RightParen", ")", 1, 104), <<>>)),
      PrintStmt(Call(Variable(Token("Identifier", "c", 1, 113)),
      Token("RightParen", ")", 1, 115), <<>>))>>]

\*   var a = 1; fun f() { return a; } a = 2; print f();
P_reassign ==
    [id |-> Id("reassign", "", ""), statements |-> <<Var(Token("Identifier",
      "a", 2, 4), Literal([k |-> "Num", n |-> Fin(1, 1)])),
      FunctionStmt(Token("Identifier", "f", 2, 15), <<>>,
      <<Return(Token("Return", "return", 2, 21),
      <<Variable(Token("Identifier", "a", 2, 28))>>)>>),
      Expression(Assign(Token("Identifier", "a", 2, 33),
      Literal([k |-> "Num", n |-> Fin(2, 1)]))),
      PrintStmt(Call(Variable(Token("Identifier", "f", 2, 46)),
      Token("RightParen", ")", 2, 48), <<>>))>>]

\*   { var n = 0; fun inc() { n = n + 1; } fun get() { return n; }
\*     inc(); print get(); inc(); print get(); }
P_shared ==
    [id |-> Id("shared", "", ""),
      statements |-> <<Block(<<Var(Token("Identifier", "n", 3, 6),
      Literal([k |-> "Num", n |-> Fin(0, 1)])),
      FunctionStmt(Token("Identifier", "inc", 3, 17), <<>>,
      <<Expression(Assign(Token("Identifier", "n", 3, 25),
      Binary(Variable(Token("Identifier", "n", 3, 29)), Token("Plus", "+", 3,
      31), Literal([k |-> "Num", n |-> Fin(1, 1)]))))>>),
      FunctionStmt(Token("Identifier", "get", 3, 42), <<>>,
      <<Return(Token("Return", "return", 3, 50),
      <<Variable(Token("Identifier", "n", 3, 57))>>)>>),
      Expression(Call(Variable(Token("Identifier", "inc", 3, 64)),
      Token("RightParen", ")", 3, 68), <<>>)),
      PrintStmt(Call(Variable(Token("Identifier", "get", 3, 77)),
      Token("RightParen", ")", 3, 81), <<>>)),
      Expression(Call(Variable(Token("Identifier", "inc", 3, 84)),
      Token("RightParen", ")", 3, 88), <<>>)),
      PrintStmt(Call(Variable(Token("Identifier", "get", 3, 97)),
      Token("RightParen", ")", 3, 101), <<>>))>>, FALSE)>>]

\*   fun f() { var k = 0;
\*     while (k < 3) { k = k + 1;
\*       if (true) { { return k; print "dead1"; } print "dead2"; }
\*       print "dead3"; }
\*     print "dead4"; return 99; }
\*   print f(); print "after";
P_return ==
    [id |-> Id("return", "", ""),
      statements |-> <<FunctionStmt(Token("Identifier", "f", 4, 4), <<>>,
      <<Var(Token("Identifier", "k", 4, 14), Literal([k |-> "Num",
      n |-> Fin(0, 1)])), While(Binary(Variable(Token("Identifier", "k", 4,
      30)), Token("Less", "<", 4, 32), Literal([k |-> "Num", n |-> Fin(3,
      1)])), Block(<<Expression(Assign(Token("Identifier", "k", 4, 39),
      Binary(Variable(Token("Identifier", "k", 4, 43)), Token("Plus", "+", 4,
      45), Literal([k |-> "Num", n |-> Fin(1, 1)])))),
      If(Literal([k |-> "True"]), Block(<<Block(<<Return(Token("Return",
      "return", 4, 68), <<Variable(Token("Identifier", "k", 4, 75))>>),
      PrintStmt(Literal([k |-> "String", s |-> "dead1"]))>>, FALSE),
      PrintStmt(Literal([k |-> "String", s |-> "dead2"]))>>, FALSE),
      Expression(Literal([k |-> "Nil"]))), PrintStmt(Literal([k |-> "String",
      s |-> "dead3"]))>>, FALSE)), PrintStmt(Literal([k |-> "String",
      s |-> "dead4"])), Return(Token("Return", "return", 4, 150),
      <<Literal([k |-> "Num", n |-> Fin(99, 1)])>>)>>),
      PrintStmt(Call(Variable(Token("Identifier", "f", 4, 169)),
      Token("RightParen", ")", 4, 171), <<>>)),
      PrintStmt(Literal([k |-> "String", s |-> "after"]))>>]

\*   fun g() { return 1; print "dead"; }
\*   fun f() { var x = g(); print "live"; return x + 1; print "dead"; }
\*   print f(); print "after";
P_nested ==
    [id |-> Id("nested", "", ""),
      statements |-> <<FunctionStmt(Token("Identifier", "g", 5, 4), <<>>,
      <<Return(Token("Return", "return", 5, 10), <<Literal([k |-> "Num",
      n |-> Fin(1, 1)])>>), PrintStmt(Literal([k |-> "String",
      s |-> "dead"]))>>), FunctionStmt(Token("Identifier", "f", 5, 40), <<>>,
      <<Var(Token("Identifier", "x", 5, 50),
      Call(Variable(Token("Identifier", "g", 5, 54)), Token("RightParen",
      ")", 5, 56), <<>>)), PrintStmt(Literal([k |-> "String",
      s |-> "live"])), Return(Token("Return", "return", 5, 73),
      <<Binary(Variable(Token("Identifier", "x", 5, 80)), Token("Plus", "+",
      5, 82), Literal([k |-> "Num", n |-> Fin(1, 1)]))>>),
      PrintStmt(Literal([k |-> "String", s |-> "dead"]))>>),
      PrintStmt(Call(Variable(Token("Identifier", "f", 5, 109)),
      Token("RightParen", ")", 5, 111), <<>>)),
      PrintStmt(Literal([k |-> "String", s |-> "after"]))>>]

\*   var x = "global"; fun show() { print x; }
\*   fun caller() { var x = "local"; show(); } caller();
P_lexical ==
    [id |-> Id("lexical", "", ""), statements |-> <<Var(Token("Identifier",
      "x", 6, 4), Literal([k |-> "String", s |-> "global"])),
      FunctionStmt(Token("Identifier", "show", 6, 22), <<>>,
      <<PrintStmt(Variable(Token("Identifier", "x", 6, 37)))>>),
      FunctionStmt(Token("Identifier", "caller", 6, 46), <<>>,
      <<Var(Token("Identifier", "x", 6, 61), Literal([k |-> "String",
      s |-> "local"])), Expression(Call(Variable(Token("Identifier", "show",
      6, 74)), Token("RightParen", ")", 6, 79), <<>>))>>),
      Expression(Call(Variable(Token("Identifier", "caller", 6, 84)),
      Token("RightParen", ")", 6, 91), <<>>))>>]

\*   fun f(n) { if (n > 0) f(n - 1); print n; } f(2);
P_recursion ==
    [id |-> Id("recursion", "", ""),
      statements |-> <<FunctionStmt(Token("Identifier", "f", 7, 4),
      <<Token("Identifier", "n", 7, 6)>>,
      <<If(Binary(Variable(Token("Identifier", "n", 7, 15)), Token("Greater",
      ">", 7, 17), Literal([k |-> "Num", n |-> Fin(0, 1)])),
      Expression(Call(Variable(Token("Identifier", "f", 7, 22)),
      Token("RightParen", ")", 7, 29), <<Binary(Variable(Token("Identifier",
      "n", 7, 24)), Token("Minus", "-", 7, 26), Literal([k |-> "Num",
      n |-> Fin(1, 1)]))>>)), Expression(Literal([k |-> "Nil"]))),
      PrintStmt(Variable(Token("Identifier", "n", 7, 38)))>>),
      Expression(Call(Variable(Token("Identifier", "f", 7, 43)),
      Token("RightParen", ")", 7, 46), <<Literal([k |-> "Num", n |-> Fin(2,
      1)])>>))>>]

\*   fun g(p) { var loc = 1; print p; } g(5); print p;
P_params ==
    [id |-> Id("params", "", ""),
      statements |-> <<FunctionStmt(Token("Identifier", "g", 8, 4),
      <<Token("Identifier", "p", 8, 6)>>, <<Var(Token("Identifier", "loc", 8,
      15), Literal([k |-> "Num", n |-> Fin(1, 1)])),
      PrintStmt(Variable(Token("Identifier", "p", 8, 30)))>>),
      Expression(Call(Variable(Token("Identifier", "g", 8, 35)),
      Token("RightParen", ")", 8, 38), <<Literal([k |-> "Num", n |-> Fin(5,
      1)])>>)), PrintStmt(Variable(Token("Identifier", "p", 8, 47)))>>]

\*   { var a = "global";
\*     { fun showA() { print a; } showA(); var a = "block"; showA(); } }
P_showA ==
    [id |-> Id("showA", "", ""),
      statements |-> <<Block(<<Var(Token("Identifier", "a", 9, 6),
      Literal([k |-> "String", s |-> "global"])),
      Block(<<FunctionStmt(Token("Identifier", "showA", 9, 28), <<>>,
      <<PrintStmt(Variable(Token("Identifier", "a", 9, 44)))>>),
      Expression(Call(Variable(Token("Identifier", "showA", 9, 49)),
      Token("RightParen", ")", 9, 55), <<>>)), Var(Token("Identifier", "a",
      9, 62), Literal([k |-> "String", s |-> "block"])),
      Expression(Call(Variable(Token("Identifier", "showA", 9, 75)),
      Token("RightParen", ")", 9, 81), <<>>))>>, FALSE)>>, FALSE)>>]

\*   { var a = 1; { var a = 2; print a; } print a; }
P_shadow ==
    [id |-> Id("shadow", "", ""),
      statements |-> <<Block(<<Var(Token("Identifier", "a", 10, 6),
      Literal([k |-> "Num", n |-> Fin(1, 1)])),
      Block(<<Var(Token("Identifier", "a", 10, 19), Literal([k |-> "Num",
      n |-> Fin(2, 1)])), PrintStmt(Variable(Token("Identifier", "a", 10,
      32)))>>, FALSE), PrintStmt(Variable(Token("Identifier", "a", 10,
      43)))>>, FALSE)>>]

\*   { var a = 1; { { a = a + 1; print a; } } }
P_depth ==
    [id |-> Id("depth", "", ""),
      statements |-> <<Block(<<Var(Token("Identifier", "a", 11, 6),
      Literal([k |-> "Num", n |-> Fin(1, 1)])),
      Block(<<Block(<<Expression(Assign(Token("Identifier", "a", 11, 17),
      Binary(Variable(Token("Identifier", "a", 11, 21)), Token("Plus", "+",
      11, 23), Literal([k |-> "Num", n |-> Fin(1, 1)])))),
      PrintStmt(Variable(Token("Identifier", "a", 11, 34)))>>, FALSE)>>,
      FALSE)>>, FALSE)>>]

\*   { var a = 1; { var a = a; } }
P_own_init ==
    [id |-> Id("own_init", "", ""),
      statements |-> <<Block(<<Var(Token("Identifier", "a", 12, 6),
      Literal([k |-> "Num", n |-> Fin(1, 1)])),
      Block(<<Var(Token("Identifier", "a", 12, 19),
      Variable(Token("Identifier", "a", 12, 23)))>>, FALSE)>>, FALSE)>>]

\*   { var a = 1; print a; }
B_ok ==
    [id |-> Id("ok", "", ""),
      statements |-> <<Block(<<Var(Token("Identifier", "a", 13, 6),
      Literal([k |-> "Num", n |-> Fin(1, 1)])),
      PrintStmt(Variable(Token("Identifier", "a", 13, 19)))>>, FALSE)>>]

\*   { var a = 1; { return a; } print "dead"; }
B_ret ==
    [id |-> Id("ret", "", ""),
      statements |-> <<Block(<<Var(Token("Identifier", "a", 14, 6),
      Literal([k |-> "Num", n |-> Fin(1, 1)])),
      Block(<<Return(Token("Return", "return", 14, 15),
      <<Variable(Token("Identifier", "a", 14, 22))>>)>>, FALSE),
      PrintStmt(Literal([k |-> "String", s |-> "dead"]))>>, FALSE)>>]

\*   { var a = 1; print -"x"; }
B_err ==
    [id |-> Id("err", "", ""),
      statements |-> <<Block(<<Var(Token("Identifier", "a", 15, 6),
      Literal([k |-> "Num", n |-> Fin(1, 1)])),
      PrintStmt(Unary(Token("Minus", "-", 15, 19), Literal([k |-> "String",
      s |-> "x"])))>>, FALSE)>>]

\*   { { print nope; } }
B_undefined ==
    [id |-> Id("undefined", "", ""),
      statements |-> <<Block(<<Block(<<PrintStmt(Variable(Token("Identifier",
      "nope", 16, 10)))>>, FALSE)>>, FALSE)>>]

\*   { fun f() { return -"x"; } f(); }
B_call_err ==
    [id |-> Id("call_err", "", ""),
      statements |-> <<Block(<<FunctionStmt(Token("Identifier", "f", 17, 6),
      <<>>, <<Return(Token("Return", "return", 17, 12),
      <<Unary(Token("Minus", "-", 17, 19), Literal([k |-> "String",
      s |-> "x"]))>>)>>), Expression(Call(Variable(Token("Identifier", "f",
      17, 27)), Token("RightParen", ")", 17, 29), <<>>))>>, FALSE)>>]


(***************************************************************************)
(* Families of programs over the operand values a program can produce.     *)
(* An operand is named; Atom(a, pos) is the expression written for it at    *)
(* offset pos.  f and g are functions, "none" is the value of a call whose  *)
(* body ends with `return;`, "nan" is 0/0.                                  *)
(***************************************************************************)
Atoms ==
    {"nil", "true", "false", "0", "1", "nan", "empty", "a", "0s", "f", "g",
     "none"}

Atom(a, pos) ==
    CASE a = "nil" -> Literal([k |-> "Nil"])
      [] a = "true" -> Literal([k |-> "True"])
      [] a = "false" -> Literal([k |-> "False"])
      [] a = "0" -> Literal([k |-> "Num", n |-> Fin(0, 1)])
      [] a = "1" -> Literal([k |-> "Num", n |-> Fin(1, 1)])
      [] a = "nan" -> Binary(Literal([k |-> "Num", n |-> Fin(0, 1)]),
                             Token("Slash", "/", 1, pos + 1),
                             Literal([k |-> "Num", n |-> Fin(0, 1)]))
      [] a = "empty" -> Literal([k |-> "String", s |-> ""])
      [] a = "a" -> Literal([k |-> "String", s |-> "a"])
      [] a = "0s" -> Literal([k |-> "String", s |-> "0"])
      [] a = "f" -> Variable(Token("Identifier", "f", 1, pos))
      [] a = "g" -> Variable(Token("Identifier", "g", 1, pos))
      [] a = "none" -> Call(Variable(Token("Identifier", "u", 1, pos)),
                            Token("RightParen", ")", 1, pos + 1), <<>>)

\*   { fun f() {} fun g() {} fun u() { return; } var l = <a>; var x = "unset"; var r = l or (x = "set"); }
F_or(a) ==
    [id |-> Id("or", a, ""),
      statements |-> <<Block(<<FunctionStmt(Token("Identifier", "f", 1, 6),
      <<>>, <<>>), FunctionStmt(Token("Identifier", "g", 1, 17), <<>>, <<>>),
      FunctionStmt(Token("Identifier", "u", 1, 28), <<>>,
      <<Return(Token("Return", "return", 1, 34), <<>>)>>),
      Var(Token("Identifier", "l", 1, 48), Atom(a, 52)),
      Var(Token("Identifier", "x", 1, 60), Literal([k |-> "String",
      s |-> "unset"])), Var(Token("Identifier", "r", 1, 77),
      Logical(Variable(Token("Identifier", "l", 1, 81)), Token("Or", "or", 1,
      83), Grouping(Assign(Token("Identifier", "x", 1, 87),
      Literal([k |-> "String", s |-> "set"])))))>>, FALSE)>>]

\*   { fun f() {} fun g() {} fun u() { return; } var l = <a>; var x = "unset"; var r = l and (x = "set"); }
F_and(a) ==
    [id |-> Id("and", a, ""),
      statements |-> <<Block(<<FunctionStmt(Token("Identifier", "f", 1, 6),
      <<>>, <<>>), FunctionStmt(Token("Identifier", "g", 1, 17), <<>>, <<>>),
      FunctionStmt(Token("Identifier", "u", 1, 28), <<>>,
      <<Return(Token("Return", "return", 1, 34), <<>>)>>),
      Var(Token("Identifier", "l", 1, 48), Atom(a, 52)),
      Var(Token("Identifier", "x", 1, 60), Literal([k |-> "String",
      s |-> "unset"])), Var(Token("Identifier", "r", 1, 77),
      Logical(Variable(Token("Identifier", "l", 1, 81)), Token("And", "and",
      1, 83), Grouping(Assign(Token("Identifier", "x", 1, 88),
      Literal([k |-> "String", s |-> "set"])))))>>, FALSE)>>]

\*   { fun f() {} fun g() {} fun u() { return; } var v = <a>; var n = !v; }
F_not(a) ==
    [id |-> Id("not", a, ""),
      statements |-> <<Block(<<FunctionStmt(Token("Identifier", "f", 1, 6),
      <<>>, <<>>), FunctionStmt(Token("Identifier", "g", 1, 17), <<>>, <<>>),
      FunctionStmt(Token("Identifier", "u", 1, 28), <<>>,
      <<Return(Token("Return", "return", 1, 34), <<>>)>>),
      Var(Token("Identifier", "v", 1, 48), Atom(a, 52)),
      Var(Token("Identifier", "n", 1, 60), Unary(Token("Bang", "!", 1, 64),
      Variable(Token("Identifier", "v", 1, 65))))>>, FALSE)>>]

\*   { fun f() {} fun g() {} fun u() { return; } var v = <a>; var n = -v; }
F_neg(a) ==
    [id |-> Id("neg", a, ""),
      statements |-> <<Block(<<FunctionStmt(Token("Identifier", "f", 1, 6),
      <<>>, <<>>), FunctionStmt(Token("Identifier", "g", 1, 17), <<>>, <<>>),
      FunctionStmt(Token("Identifier", "u", 1, 28), <<>>,
      <<Return(Token("Return", "return", 1, 34), <<>>)>>),
      Var(Token("Identifier", "v", 1, 48), Atom(a, 52)),
      Var(Token("Identifier", "n", 1, 60), Unary(Token("Minus", "-", 1, 64),
      Variable(Token("Identifier", "v", 1, 65))))>>, FALSE)>>]

\*   { fun f() {} fun g() {} fun u() { return; } var l = <a>; var r = <b>;
\*     var eq = l == r; var ne = l != r; var qe = r == l; }
F_equal(a, b) ==
    [id |-> Id("equal", a, b),
      statements |-> <<Block(<<FunctionStmt(Token("Identifier", "f", 1, 6),
      <<>>, <<>>), FunctionStmt(Token("Identifier", "g", 1, 17), <<>>, <<>>),
      FunctionStmt(Token("Identifier", "u", 1, 28), <<>>,
      <<Return(Token("Return", "return", 1, 34), <<>>)>>),
      Var(Token("Identifier", "l", 1, 48), Atom(a, 52)),
      Var(Token("Identifier", "r", 1, 60), Atom(b, 64)),
      Var(Token("Identifier", "eq", 1, 74),
      Binary(Variable(Token("Identifier", "l", 1, 79)), Token("EqualEqual",
      "==", 1, 81), Variable(Token("Identifier", "r", 1, 84)))),
      Var(Token("Identifier", "ne", 1, 91),
      Binary(Variable(Token("Identifier", "l", 1, 96)), Token("BangEqual",
      "!=", 1, 98), Variable(Token("Identifier", "r", 1, 101)))),
      Var(Token("Identifier", "qe", 1, 108),
      Binary(Variable(Token("Identifier", "r", 1, 113)), Token("EqualEqual",
      "==", 1, 115), Variable(Token("Identifier", "l", 1, 118))))>>, FALSE)>>]

\*   { fun f() {} fun g() {} fun u() { return; } var v = <a>;
\*     var isnil = v == nil; var isfalse = v == false;
\*     if (v) print "then"; else print "else";
\*     var w = v; while (w) { print "loop"; w = nil; }
\*     var o = v or "right"; var n = v and "right"; }
F_truthy(a) ==
    [id |-> Id("truthy", a, ""),
      statements |-> <<Block(<<FunctionStmt(Token("Identifier", "f", 1, 6),
      <<>>, <<>>), FunctionStmt(Token("Identifier", "g", 1, 17), <<>>, <<>>),
      FunctionStmt(Token("Identifier", "u", 1, 28), <<>>,
      <<Return(Token("Return", "return", 1, 34), <<>>)>>),
      Var(Token("Identifier", "v", 1, 48), Atom(a, 52)),
      Var(Token("Identifier", "isnil", 1, 62),
      Binary(Variable(Token("Identifier", "v", 1, 70)), Token("EqualEqual",
      "==", 1, 72), Literal([k |-> "Nil"]))), Var(Token("Identifier",
      "isfalse", 1, 84), Binary(Variable(Token("Identifier", "v", 1, 94)),
      Token("EqualEqual", "==", 1, 96), Literal([k |-> "False"]))),
      If(Variable(Token("Identifier", "v", 1, 112)),
      PrintStmt(Literal([k |-> "String", s |-> "then"])),
      PrintStmt(Literal([k |-> "String", s |-> "else"]))),
      Var(Token("Identifier", "w", 1, 154), Variable(Token("Identifier", "v",
      1, 158))), While(Variable(Token("Identifier", "w", 1, 168)),
      Block(<<PrintStmt(Literal([k |-> "String", s |-> "loop"])),
      Expression(Assign(Token("Identifier", "w", 1, 187),
      Literal([k |-> "Nil"])))>>, FALSE)), Var(Token("Identifier", "o", 1,
      204), Logical(Variable(Token("Identifier", "v", 1, 208)), Token("Or",
      "or", 1, 210), Literal([k |-> "String", s |-> "right"]))),
      Var(Token("Identifier", "n", 1, 226),
      Logical(Variable(Token("Identifier", "v", 1, 230)), Token("And", "and",
      1, 232), Literal([k |-> "String", s |-> "right"])))>>, FALSE)>>]

\*   { fun f() {} fun g() {} fun u() { return; } var x = <a>; { var x = <b>; var y = <b>; print x; } print x; print y; print "after"; }
F_block(a, b) ==
    [id |-> Id("block", a, b),
      statements |-> <<Block(<<FunctionStmt(Token("Identifier", "f", 1, 6),
      <<>>, <<>>), FunctionStmt(Token("Identifier", "g", 1, 17), <<>>, <<>>),
      FunctionStmt(Token("Identifier", "u", 1, 28), <<>>,
      <<Return(Token("Return", "return", 1, 34), <<>>)>>),
      Var(Token("Identifier", "x", 1, 48), Atom(a, 52)),
      Block(<<Var(Token("Identifier", "x", 1, 62), Atom(b, 66)),
      Var(Token("Identifier", "y", 1, 74), Atom(b, 78)),
      PrintStmt(Variable(Token("Identifier", "x", 1, 88)))>>, FALSE),
      PrintStmt(Variable(Token("Identifier", "x", 1, 99))),
      PrintStmt(Variable(Token("Identifier", "y", 1, 108))),
      PrintStmt(Literal([k |-> "String", s |-> "after"]))>>, FALSE)>>]

\*   { fun f() {} fun g() {} fun u() { return; } fun h(p) { x = p; print "body"; } var x = "unset"; var c = <a>; c(1); print "after"; }
F_call_args(a) ==
    [id |-> Id("call_args", a, ""),
      statements |-> <<Block(<<FunctionStmt(Token("Identifier", "f", 1, 6),
      <<>>, <<>>), FunctionStmt(Token("Identifier", "g", 1, 17), <<>>, <<>>),
      FunctionStmt(Token("Identifier", "u", 1, 28), <<>>,
      <<Return(Token("Return", "return", 1, 34), <<>>)>>),
      FunctionStmt(Token("Identifier", "h", 1, 48), <<Token("Identifier",
      "p", 1, 50)>>, <<Expression(Assign(Token("Identifier", "x", 1, 55),
      Variable(Token("Identifier", "p", 1, 59)))),
      PrintStmt(Literal([k |-> "String", s |-> "body"]))>>),
      Var(Token("Identifier", "x", 1, 82), Literal([k |-> "String",
      s |-> "unset"])), Var(Token("Identifier", "c", 1, 99), Atom(a, 103)),
      Expression(Call(Variable(Token("Identifier", "c", 1, 107)),
      Token("RightParen", ")", 1, 110), <<Literal([k |-> "Num", n |-> Fin(1,
      1)])>>)), PrintStmt(Literal([k |-> "String", s |-> "after"]))>>,
      FALSE)>>]

\*   { fun f() {} fun g() {} fun u() { return; } fun h(p) { x = p; print "body"; } var v = <a>; var x = "unset"; h(v); x = "reset"; h(); print "after"; }
F_call_few(a) ==
    [id |-> Id("call_few", a, ""),
      statements |-> <<Block(<<FunctionStmt(Token("Identifier", "f", 1, 6),
      <<>>, <<>>), FunctionStmt(Token("Identifier", "g", 1, 17), <<>>, <<>>),
      FunctionStmt(Token("Identifier", "u", 1, 28), <<>>,
      <<Return(Token("Return", "return", 1, 34), <<>>)>>),
      FunctionStmt(Token("Identifier", "h", 1, 48), <<Token("Identifier",
      "p", 1, 50)>>, <<Expression(Assign(Token("Identifier", "x", 1, 55),
      Variable(Token("Identifier", "p", 1, 59)))),
      PrintStmt(Literal([k |-> "String", s |-> "body"]))>>),
      Var(Token("Identifier", "v", 1, 82), Atom(a, 86)),
      Var(Token("Identifier", "x", 1, 94), Literal([k |-> "String",
      s |-> "unset"])), Expression(Call(Variable(Token("Identifier", "h", 1,
      107)), Token("RightParen", ")", 1, 110), <<Variable(Token("Identifier",
      "v", 1, 109))>>)), Expression(Assign(Token("Identifier", "x", 1, 113),
      Literal([k |-> "String", s |-> "reset"]))),
      Expression(Call(Variable(Token("Identifier", "h", 1, 126)),
      Token("RightParen", ")", 1, 128), <<>>)),
      PrintStmt(Literal([k |-> "String", s |-> "after"]))>>, FALSE)>>]

\*   fun f() {} fun g() {} fun u() { return; } fun w(v) { { var n = -v; } print "inner"; } var x = "unset"; print "before"; x = "set"; w(<a>); print "after"; x = "done";
F_fatal(a) ==
    [id |-> Id("fatal", a, ""),
      statements |-> <<FunctionStmt(Token("Identifier", "f", 1, 4), <<>>,
      <<>>), FunctionStmt(Token("Identifier", "g", 1, 15), <<>>, <<>>),
      FunctionStmt(Token("Identifier", "u", 1, 26), <<>>,
      <<Return(Token("Return", "return", 1, 32), <<>>)>>),
      FunctionStmt(Token("Identifier", "w", 1, 46), <<Token("Identifier",
      "v", 1, 48)>>, <<Block(<<Var(Token("Identifier", "n", 1, 59),
      Unary(Token("Minus", "-", 1, 63), Variable(Token("Identifier", "v", 1,
      64))))>>, FALSE), PrintStmt(Literal([k |-> "String",
      s |-> "inner"]))>>), Var(Token("Identifier", "x", 1, 90),
      Literal([k |-> "String", s |-> "unset"])),
      PrintStmt(Literal([k |-> "String", s |-> "before"])),
      Expression(Assign(Token("Identifier", "x", 1, 119),
      Literal([k |-> "String", s |-> "set"]))),
      Expression(Call(Variable(Token("Identifier", "w", 1, 130)),
      Token("RightParen", ")", 1, 134), <<Atom(a, 132)>>)),
      PrintStmt(Literal([k |-> "String", s |-> "after"])),
      Expression(Assign(Token("Identifier", "x", 1, 152),
      Literal([k |-> "String", s |-> "done"])))>>]

Families ==
    {F_or(a) : a \in Atoms} \cup {F_and(a) : a \in Atoms}
    \cup {F_not(a) : a \in Atoms} \cup {F_neg(a) : a \in Atoms}
    \cup {F_equal(a, b) : a \in Atoms, b \in Atoms}
    \cup {F_truthy(a) : a \in Atoms}
    \cup {F_block(a, b) : a \in Atoms, b \in Atoms}
    \cup {F_call_args(a) : a \in Atoms}
    \cup {F_call_few(a) : a \in Atoms}
    \cup {F_fatal(a) : a \in Atoms}

\* the programs handed to Interpreter::interpret and to the resolver
Programs ==
    {P_counter, P_reassign, P_shared, P_return, P_nested, P_lexical,
     P_recursion, P_params, P_showA, P_shadow, P_depth, P_own_init}

\* the statements handed to the visitor, each a program of one statement
Statements ==
    {B_ok, B_ret, B_err, B_undefined, B_call_err, P_shared, P_showA, P_shadow,
     P_depth}

(***************************************************************************)
(* The interpreter as a state machine.  A step is one call of a public     *)
(* entry point on the one Interpreter: interpret on a program, the         *)
(* visitor's eval on a statement, or a resolver pass over a program.       *)
(***************************************************************************)
NoError == LoxError(0, "", 0)

Init ==
    /\ envs = <<Environment_new>>
    /\ environment = 1
    /\ locals = EmptyMap
    /\ scopes = <<>>
    /\ errors = <<>>
    /\ out = <<>>
    /\ trace = <<>>
    /\ nclone = 0
    /\ status = [res |-> "New", err |-> NoError]
    /\ calls = 0
    /\ last = [op |-> "new", p |-> Id("", "", "")]
    /\ resolved = {}
    /\ scanner = Scanner_new(<<>>)
    /\ scanned = [res |-> "New", tokens |-> <<>>, errors |-> <<>>]
    /\ parser = [tokens |-> <<>>, statements |-> <<>>, errors |-> <<>>,
                 current |-> 0]

\* the state a call starts from; the history of the call starts empty
Start ==
    [envs |-> envs, environment |-> environment, out |-> out, trace |-> <<>>,
     nclone |-> nclone]

\* what a call of interpret or eval leaves behind
Finish(r, op, p) ==
    /\ envs' = r.st.envs
    /\ environment' = r.st.environment
    /\ out' = r.st.out
    /\ trace' = r.st.trace
    /\ nclone' = r.st.nclone
    /\ status' = [res |-> r.res, err |-> IF r.res = "Err" THEN r.err ELSE NoError]
    /\ calls' = calls + 1
    /\ last' = [op |-> op, p |-> p.id]
    /\ UNCHANGED <<locals, scopes, errors, resolved>>
    /\ UNCHANGED front

\* Interpreter::interpret(statements)
Interpret(p) ==
    /\ status.res /= "Panic"
    /\ calls < MaxCalls
    /\ Finish(interpret(p.statements, 1, Start), "interpret", p)

\* Evaluator::eval(Evalable::Stmt(s)) for the one statement of p
Eval(p) ==
    /\ status.res /= "Panic"
    /\ calls < MaxCalls
    /\ Finish(eval(p.statements[1], Start), "eval", p)

\* a pass of a new Resolver, which owns the Interpreter, over a program
Resolve(p) ==
    LET pass(r) ==
            LET clean == r.res = "Ok" /\ Len(r.errs) = 0
            IN  /\ locals' = r.rs.locals
                /\ scopes' = r.rs.scopes
                /\ errors' = r.errs
                /\ status' = [res |-> IF r.res = "Panic" THEN "Panic"
                                      ELSE IF clean THEN "Ok" ELSE "Err",
                              err |-> IF Len(r.errs) = 0 THEN NoError
                                      ELSE r.errs[1]]
                /\ resolved' = IF clean THEN resolved \cup {p.id}
                               ELSE resolved
    IN  /\ status.res /= "Panic"
        /\ calls < MaxCalls
        /\ pass(resolve_program(p.statements, 1,
                                [scopes |-> <<>>, locals |-> locals], <<>>))
        /\ calls' = calls + 1
        /\ last' = [op |-> "resolve", p |-> p.id]
        /\ trace' = <<>>
        /\ UNCHANGED <<envs, environment, out, nclone>>
        /\ UNCHANGED front

Next ==
    \/ \E p \in Programs : Interpret(p)
    \/ \E p \in Statements : Eval(p)
    \/ \E p \in Programs : Resolve(p)

Spec == Init /\ [][Next]_vars

\* one program of the families on a new interpreter, by either evaluator
NextOps ==
    \E p \in Families :
        /\ calls = 0
        /\ \/ Interpret(p)
           \/ Eval(p)

SpecOps == Init /\ [][NextOps]_vars

(***************************************************************************)
(* Queries on the history of the last call.                                *)
(***************************************************************************)
\* the last call evaluated the program of family f
Ran(f) == last.op \in {"interpret", "eval"} /\ last.p.fam = f

Events(k) == {i \in DOMAIN trace : trace[i].ev = k}

\* the lines the last call printed
Printed ==
    LET p == SelectSeq(trace, LAMBDA e : e.ev = "print")
    IN  [i \in 1..Len(p) |-> p[i].text]

\* the cells the calls of the last call bound their parameters in
CallCells == {trace[i].env : i \in Events("call")}

\* the cell of the innermost activation that cell e belongs to, 0 at top
\* level
RECURSIVE Activation(_)
Activation(e) ==
    IF e = 0 THEN 0
    ELSE IF e \in CallCells THEN e
    ELSE Activation(envs[e].enclosing)

\* the cell d parent links above cell e, 0 when the chain is shorter
RECURSIVE Ancestor(_, _)
Ancestor(e, d) ==
    IF e = 0 \/ d = 0 THEN e ELSE Ancestor(envs[e].enclosing, d - 1)

\* the last call ran a program that a resolver pass had taken without error
Pipeline == last.op \in {"interpret", "eval"} /\ last.p \in resolved

(***************************************************************************)
(* C1.  eval_block leaves the interpreter's current environment as it      *)
(* found it on every exit, a runtime error included: no call of an entry   *)
(* point, whatever blocks it runs and however they end, changes            *)
(* Interpreter.environment.                                                *)
(***************************************************************************)
C1_EnvironmentRestored == [][environment' = environment]_vars

\* a block run by the visitor ended normally or by a return, and the
\* environment is the one of before
C1_BlockLeft ==
    /\ last.op = "eval"
    /\ last.p.fam \in {"ok", "ret"}
    /\ status.res = "Ok"
    /\ environment = 1

(***************************************************************************)
(* C2.  A closure captures its defining environment by reference: the      *)
(* environment a function value holds is the very cell the declaration     *)
(* was evaluated in; the counter closure returns 1, 2, 3; a function       *)
(* reads the value a captured variable has at the call, after a            *)
(* reassignment that followed the definition; two closures of one scope    *)
(* see each other's assignments.                                           *)
(***************************************************************************)
C2_CaptureByReference ==
    /\ \A i \in Events("declare") :
           trace[i].val.f.environment = trace[i].env
    /\ Ran("counter") => Printed = <<"1", "2", "3">>
    /\ Ran("reassign") => Printed = <<"2">>
    /\ Ran("shared") => Printed = <<"1", "2">>

C2_CounterCounted ==
    /\ Ran("counter")
    /\ Len(Printed) = 3
    /\ \E i \in Events("assign") : trace[i].at /= trace[i].env

(***************************************************************************)
(* C3.  A return statement executed inside a function activation is        *)
(* followed at once by the return of that activation's call with the       *)
(* returned value: nothing else of the activation is read, written,        *)
(* printed or called.  The caller goes on: the statements after the call   *)
(* run.                                                                    *)
(***************************************************************************)
C3_ReturnPropagation ==
    /\ \A i \in Events("ret") :
           Activation(trace[i].env) /= 0
               => /\ i < Len(trace)
                  /\ trace[i + 1] = [ev |-> "return",
                                     env |-> Activation(trace[i].env),
                                     val |-> trace[i].val]
    /\ Ran("return") => Printed = <<"1", "after">>
    /\ Ran("nested") => Printed = <<"live", "2", "after">>

\* a return ran four cells below its activation's (the body's, the loop
\* body's and two more blocks'), the statements after it did not run, and
\* the caller went on
C3_ReturnedFromNesting ==
    /\ Ran("return")
    /\ \E i \in Events("ret") :
           /\ Activation(trace[i].env) /= 0
           /\ Ancestor(trace[i].env, 4) = Activation(trace[i].env)
    /\ Printed = <<"1", "after">>

(***************************************************************************)
(* C4.  Every call binds its parameters in a new cell whose parent is the  *)
(* environment the function captured.  The callee does not see the         *)
(* caller's locals; the activations of a recursion have parameters of      *)
(* their own; what a call bound is not in the captured environment after   *)
(* the call.                                                               *)
(***************************************************************************)
C4_FreshEnvironmentPerCall ==
    /\ \A i \in Events("call") :
           LET c == trace[i]
           IN  /\ c.env > c.cells
               /\ envs[c.env].enclosing = c.f.environment
               /\ \A k \in DOMAIN c.args :
                      c.f.declaration.node.params[k].lexeme
                          \in DOMAIN envs[c.env].values
               /\ \A j \in Events("call") : j /= i => trace[j].env /= c.env
    /\ Ran("lexical") => Printed = <<"global">>
    /\ Ran("recursion") => Printed = <<"0", "1", "2">>
    /\ Ran("params") =>
           /\ Printed = <<"5">>
           /\ status.res = "Err"
           /\ status.err.message = "Undefined variable p."

\* a recursion three activations deep, each with its own n
C4_RecursionRan ==
    /\ Ran("recursion")
    /\ Cardinality(Events("call")) = 3
    /\ Cardinality({envs[trace[i].env].values["n"] : i \in Events("call")}) = 3

(***************************************************************************)
(* C5.  In a program the resolver has taken, a Variable or Assign node     *)
(* with a depth d reads or writes the cell d links above the current one,  *)
(* and a node with no depth the global cell (or none, when the name is     *)
(* not defined).                                                           *)
(***************************************************************************)
C5_ResolvedLookup ==
    Pipeline =>
        \A i \in Events("get") \cup Events("assign") :
            LET e == trace[i]
            IN  IF e.name \in DOMAIN locals
                THEN e.at = Ancestor(e.env, locals[e.name])
                ELSE e.at \in {0, 1}

(***************************************************************************)
(* C6.  In a program the resolver has taken, whenever a Variable node      *)
(* with a depth d is evaluated, the cell d links above the current one     *)
(* exists and holds the variable's name.                                   *)
(***************************************************************************)
C6_DepthLandsOnBinding ==
    Pipeline =>
        \A i \in Events("get") :
            LET e == trace[i]
            IN  e.name \in DOMAIN locals =>
                    /\ locals[e.name] < Len(e.chain)
                    /\ e.name.lexeme \in e.chain[locals[e.name] + 1]

\* a resolved read two scopes below the declaration
C6_ResolvedRead ==
    /\ Pipeline
    /\ \E i \in Events("get") :
           /\ trace[i].name \in DOMAIN locals
           /\ locals[trace[i].name] = 2
           /\ Ancestor(trace[i].env, 2) = trace[i].at

(***************************************************************************)
(* Queries on a program of the families: the value a `var` statement of    *)
(* the last call bound to a name, and whether the call assigned to one.    *)
(***************************************************************************)
HasDef(x) ==
    \E i \in Events("define") : trace[i].name.lexeme = x

Def(x) ==
    trace[CHOOSE i \in Events("define") : trace[i].name.lexeme = x].val

Assigned(x) ==
    \E i \in Events("assign") : trace[i].name.lexeme = x

(***************************************************************************)
(* C7.  In `l or (x = "set")` the assignment runs exactly when l is        *)
(* falsey, in `l and (x = "set")` exactly when l is truthy, and the value  *)
(* of the expression is l itself when the assignment did not run and the   *)
(* value of the right operand when it did.                                 *)
(***************************************************************************)
C7_ShortCircuit ==
    \A op \in {"or", "and"} :
        Ran(op) =>
            /\ status.res = "Ok"
            /\ Assigned("x") <=>
                   (IF op = "or" THEN ~is_truthy(Def("l"))
                    ELSE is_truthy(Def("l")))
            /\ Def("r") = IF Assigned("x") THEN String("set") ELSE Def("l")

\* `0 or ...` left the right operand alone and gave the number 0 itself
C7_LeftDecided ==
    /\ Ran("or")
    /\ Def("l") = Number(F(0))
    /\ ~Assigned("x")
    /\ Def("r") = Number(F(0))

(***************************************************************************)
(* C8.  == and != never end in a runtime error.  Values of different       *)
(* variants are unequal, nil equals nil, booleans, numbers and strings     *)
(* are equal exactly when they are the same, != is the negation of ==,     *)
(* and == is symmetric.                                                    *)
(***************************************************************************)
C8_EqualityByContent ==
    Ran("equal") =>
        /\ status.res = "Ok"
        /\ Def("ne") = Bool(~Def("eq").b)
        /\ Def("qe") = Def("eq")
        /\ Def("l").t /= Def("r").t => Def("eq") = Bool(FALSE)
        /\ Def("l").t = "Nil" /\ Def("r").t = "Nil" => Def("eq") = Bool(TRUE)
        /\ Def("l").t = Def("r").t
           /\ Def("l").t \in {"Bool", "Number", "String"}
               => Def("eq") = Bool(Def("l") = Def("r"))

\* what the code does: all of the above but for numbers, which are equal
\* exactly when they are the same and not NaN (f64's ==)
C8_EqualityIEEE ==
    Ran("equal") =>
        /\ status.res = "Ok"
        /\ Def("eq").t = "Bool"
        /\ Def("ne") = Bool(~Def("eq").b)
        /\ Def("qe") = Def("eq")
        /\ Def("l").t /= Def("r").t => Def("eq") = Bool(FALSE)
        /\ Def("l").t = "Nil" /\ Def("r").t = "Nil" => Def("eq") = Bool(TRUE)
        /\ Def("l").t = Def("r").t /\ Def("l").t \in {"Bool", "String"}
               => Def("eq") = Bool(Def("l") = Def("r"))
        /\ Def("l").t = "Number" /\ Def("r").t = "Number"
               => Def("eq") = Bool(Def("l") = Def("r")
                                  /\ Def("l").n.cls /= "nan")

\* 0/0 compared with 0/0: no error, and == is false
C8_NaNCompared ==
    /\ Ran("equal")
    /\ status.res = "Ok"
    /\ Def("l") = Number(NaN)
    /\ Def("r") = Number(NaN)
    /\ Def("eq") = Bool(FALSE)
    /\ Def("ne") = Bool(TRUE)

(***************************************************************************)
(* C9.  Unary `!` succeeds on every value and yields Bool(not truthy(v)).  *)
(* Unary `-` succeeds exactly on numbers, where it yields the negated      *)
(* number, and is a runtime error on every other value.                    *)
(***************************************************************************)
C9_BangOnEveryValue ==
    /\ Ran("not") =>
           status.res = "Ok" /\ Def("n") = Bool(~is_truthy(Def("v")))
    /\ Ran("neg") =>
           IF Def("v").t = "Number"
           THEN status.res = "Ok" /\ Def("n") = Number(f64_neg(Def("v").n))
           ELSE status.res = "Err"

\* what the code does: `!` succeeds exactly on booleans and nil and is the
\* runtime error "Cannot convert expression to truthy/falsy." on every
\* other value; `-` is as stated, its error "Operand must be number."
C9_UnaryOperators ==
    /\ Ran("not") =>
           IF Def("v").t \in {"Bool", "Nil"}
           THEN status.res = "Ok" /\ Def("n") = Bool(~is_truthy(Def("v")))
           ELSE /\ status.res = "Err"
                /\ status.err.message
                       = "Cannot convert expression to truthy/falsy."
                /\ ~HasDef("n")
    /\ Ran("neg") =>
           IF Def("v").t = "Number"
           THEN status.res = "Ok" /\ Def("n") = Number(f64_neg(Def("v").n))
           ELSE /\ status.res = "Err"
                /\ status.err.message = "Operand must be number."
                /\ ~HasDef("n")

\* `!0` ended in the runtime error
C9_BangOnNumber ==
    /\ Ran("not")
    /\ Def("v") = Number(F(0))
    /\ status.res = "Err"
    /\ ~HasDef("n")

(***************************************************************************)
(* C10.  A value that if, while and the logical operators take as falsey   *)
(* is nil or false (the program's own `v == nil` or `v == false` says so), *)
(* and numbers, strings and functions are truthy.                          *)
(***************************************************************************)
C10_OnlyNilAndFalseFalsey ==
    Ran("truthy") =>
        /\ status.res = "Ok"
        /\ Printed[1] = "else"
               => Def("isnil") = Bool(TRUE) \/ Def("isfalse") = Bool(TRUE)
        /\ Def("v").t \in {"Number", "String", "Function"}
               => /\ Printed = <<"then", "loop">>
                  /\ Def("o") = Def("v")
                  /\ Def("n") = String("right")

\* 0 or the empty string took the then-branch and entered the loop
C10_ZeroIsTruthy ==
    /\ Ran("truthy")
    /\ Def("v") \in {Number(F(0)), String("")}
    /\ Printed = <<"then", "loop">>

(***************************************************************************)
(* The Environment on its own.  A step is one call of its interface on    *)
(* the current environment of a tree of environments: a new child of some  *)
(* environment becomes the current one, or a name is defined or assigned   *)
(* in the current one.                                                     *)
(***************************************************************************)
MaxCells == 3

EnvNames == {"a", "b"}

EnvValues == {Number(F(1)), Number(F(2))}

EnvDone(op, name, value, res) ==
    /\ last' = [op |-> op, p |-> Id("Environment", "", ""),
                name |-> name, value |-> value]
    /\ status' = res
    /\ UNCHANGED <<locals, scopes, errors, out, trace, nclone, calls,
                   resolved>>
    /\ UNCHANGED front

\* Environment::new_with_enclosing(c), which becomes the current one
EnvEnter(c) ==
    /\ Len(envs) < MaxCells
    /\ envs' = Alloc(envs, new_with_enclosing(c))
    /\ environment' = Len(envs) + 1
    /\ EnvDone("enter", Token("Identifier", "", 1, 0), Nil,
               [res |-> "Ok", err |-> NoError])

\* environment.define(n, v)
EnvDefine(n, v) ==
    /\ envs' = define(envs, environment, n, v)
    /\ environment' = environment
    /\ EnvDone("define", Token("Identifier", n, 1, 0), v,
               [res |-> "Ok", err |-> NoError])

\* environment.assign(&name, v)
EnvAssign(n, v) ==
    LET name == Token("Identifier", n, 1, 0)
        done(a) ==
            /\ envs' = a.h
            /\ environment' = environment
            /\ EnvDone("assign", name, v,
                       [res |-> a.res,
                        err |-> IF a.res = "Err" THEN a.err ELSE NoError])
    IN  done(assign(envs, environment, name, v))

NextEnv ==
    \/ \E c \in 1..Len(envs) : EnvEnter(c)
    \/ \E n \in EnvNames, v \in EnvValues : EnvDefine(n, v)
    \/ \E n \in EnvNames, v \in EnvValues : EnvAssign(n, v)

SpecEnv == Init /\ [][NextEnv]_vars

(***************************************************************************)
(* C11.  Environment::assign never creates a binding.  A call of assign    *)
(* leaves the names of every environment as they were; when an environment *)
(* of the chain from the current one holds the name, the call succeeds and *)
(* changes exactly the binding of the nearest such environment; when none  *)
(* holds it, the call returns the undefined-variable error and no          *)
(* environment is changed.                                                 *)
(***************************************************************************)
C11_AssignNeverCreates ==
    [][last'.op = "assign" =>
         LET n == last'.name.lexeme
             c == Holder(envs, environment, n)
         IN  /\ Len(envs') = Len(envs)
             /\ \A k \in 1..Len(envs) :
                    /\ DOMAIN envs'[k].values = DOMAIN envs[k].values
                    /\ envs'[k].enclosing = envs[k].enclosing
             /\ IF c = 0
                THEN /\ status'.res = "Err"
                     /\ status'.err = Undefined(last'.name)
                     /\ envs' = envs
                ELSE /\ status'.res = "Ok"
                     /\ \A k \in 1..Len(envs) :
                            \A x \in DOMAIN envs[k].values :
                                envs'[k].values[x]
                                    = IF k = c /\ x = n THEN last'.value
                                      ELSE envs[k].values[x]]_vars

\* an assign reached a binding two environments up, past an environment
\* without the name, while a sibling environment holds the name too
C11_AssignedOuter ==
    /\ last.op = "assign"
    /\ status.res = "Ok"
    /\ Len(envs) = 3
    /\ envs[3].enclosing = 1
    /\ last.name.lexeme \notin DOMAIN envs[3].values
    /\ last.name.lexeme \in DOMAIN envs[2].values
    /\ envs[1].values[last.name.lexeme] = last.value
    /\ envs[2].values[last.name.lexeme] /= last.value

(***************************************************************************)
(* Queries on a program of the families by the place of a name in its      *)
(* text: the `var` statement that declared the name written at offset pos, *)
(* and the read of the name written at offset pos.                         *)
(***************************************************************************)
DefAt(pos) ==
    CHOOSE i \in Events("define") : trace[i].name.position = pos

GetAt(pos) ==
    CHOOSE i \in Events("get") : trace[i].name.position = pos

(***************************************************************************)
(* C12.  Block scoping, on                                                 *)
(*   { var x = <a>; { var x = <b>; var y = <b>; print x; } print x;        *)
(*     print y; print "after"; }                                           *)
(* for all values a and b.  The inner declarations bind in a fresh child   *)
(* of the environment of the outer one and leave the outer binding of x    *)
(* as it was; inside the block x reads the inner binding, after it x reads *)
(* the outer binding with its first value, and y, declared only inside,    *)
(* is undefined: the program prints b, then a, then ends with the          *)
(* undefined-variable error at `print y`.                                  *)
(***************************************************************************)
C12_BlockScoping ==
    Ran("block") =>
        LET outer == trace[DefAt(48)].env
            inner == trace[DefAt(62)].env
        IN  /\ inner /= outer
            /\ envs[inner].enclosing = outer
            /\ \A i \in 1..DefAt(48) : trace[i].env /= inner
            /\ trace[DefAt(74)].env = inner
            /\ envs[outer].values["x"] = trace[DefAt(48)].val
            /\ "y" \notin DOMAIN envs[outer].values
            /\ envs[inner].values["x"] = trace[DefAt(62)].val
            /\ trace[GetAt(88)].at = inner
            /\ trace[GetAt(99)].at = outer
            /\ trace[GetAt(108)].at = 0
            /\ Printed = <<to_string(trace[DefAt(62)].val),
                           to_string(trace[DefAt(48)].val)>>
            /\ status.res = "Err"
            /\ status.err = Undefined(Token("Identifier", "y", 1, 108))

\* a = 1 and b = 0: the block printed 0, the statement after it 1
C12_InnerShadowed ==
    /\ Ran("block")
    /\ trace[DefAt(48)].val = Number(F(1))
    /\ trace[DefAt(62)].val = Number(F(0))
    /\ Printed = <<"0", "1">>
    /\ status.res = "Err"

(***************************************************************************)
(* C13.  A call of a value that is not a function, and a call of a         *)
(* function with a number of arguments other than its arity, end in a      *)
(* runtime error at the closing parenthesis of the call; the body does not *)
(* run, no environment is created for the call (a call that runs creates   *)
(* two, one for the parameters and one for the body) and no binding        *)
(* changes.                                                                *)
(* On  var x = "unset"; var c = <a>; c(1);  for every value a (the         *)
(* functions among them take no parameter), and on                         *)
(*   var x = "unset"; h(v); x = "reset"; h();  with fun h(p) { x = p; .. } *)
(***************************************************************************)
C13_CallChecks ==
    /\ Ran("call_args") =>
           LET blk == trace[DefAt(82)].env
               c == trace[DefAt(99)].val
           IN  /\ status.res = "Err"
               /\ status.err
                      = LoxError(1, IF c.t = "Function"
                                    THEN "Parameters and arguments mismatch in number."
                                    ELSE "Can only call functions and classes",
                                 110)
               /\ \A i \in Events("invoke") \cup Events("call") :
                      i < DefAt(99)
               /\ Len(envs) = 2 + 2 * Cardinality(Events("call"))
               /\ Printed = <<>>
               /\ Events("assign") = {}
               /\ envs[blk].values["x"] = String("unset")
               /\ envs[blk].values["c"] = c
    /\ Ran("call_few") =>
           LET blk == trace[DefAt(94)].env
               calls_of_h ==
                   {i \in Events("call") :
                        trace[i].f.declaration.node.name.position = 48}
           IN  /\ status.res = "Err"
               /\ status.err
                      = LoxError(1, "Parameters and arguments mismatch in number.",
                                 128)
               /\ Cardinality(calls_of_h) = 1
               /\ Len(envs) = 2 + 2 * Cardinality(Events("call"))
               /\ Printed = <<"body">>
               /\ envs[blk].values["x"] = String("reset")

\* h, of one parameter, was called with none after a call with one
C13_TooFewArguments ==
    /\ Ran("call_few")
    /\ status.res = "Err"
    /\ status.err.position = 128
    /\ Printed = <<"body">>
    /\ \E i \in Events("call") : trace[i].args = <<Number(F(1))>>

(***************************************************************************)
(* C14.  A runtime error is fatal on first occurrence.  On                 *)
(*   fun w(v) { { var n = -v; } print "inner"; }                           *)
(*   var x = "unset"; print "before"; x = "set"; w(<a>);                   *)
(*   print "after"; x = "done";                                            *)
(* for every value a: when a is not a number, interpret returns the one    *)
(* error of `-v`, nothing after the failing point runs (neither the rest   *)
(* of w nor the statements after the call), and what ran before it stays:  *)
(* "before" is printed and x is "set".  When a is a number the program     *)
(* runs to its end.                                                        *)
(***************************************************************************)
C14_FatalOnFirstError ==
    last.op = "interpret" /\ last.p.fam = "fatal" =>
        LET call_of_w ==
                CHOOSE i \in Events("call") :
                    trace[i].f.declaration.node.name.lexeme = "w"
            v == trace[call_of_w].args[1]
        IN  IF v.t = "Number"
            THEN /\ status.res = "Ok"
                 /\ Printed = <<"before", "inner", "after">>
                 /\ envs[1].values["x"] = String("done")
            ELSE /\ status.res = "Err"
                 /\ status.err = LoxError(1, "Operand must be number.", 63)
                 /\ Printed = <<"before">>
                 /\ out = <<"before">>
                 /\ envs[1].values["x"] = String("set")
                 /\ ~HasDef("n")
                 /\ \A i \in DOMAIN trace : i > call_of_w =>
                        trace[i].ev = "get" /\ trace[i].name.lexeme = "v"

\* w("a") failed: "before" is printed, x is "set", nothing ran after
C14_StoppedInsideCall ==
    /\ last.op = "interpret"
    /\ last.p = Id("fatal", "a", "")
    /\ status.res = "Err"
    /\ out = <<"before">>
    /\ envs[1].values["x"] = String("set")

(***************************************************************************)
(* The resolver on its own.  A step is a pass of a new Resolver over a     *)
(* program of one block; the programs declare variables in block scopes    *)
(* and read them in and after their initializers.                          *)
(***************************************************************************)
\*   { var a = a; }
D_own ==
    [id |-> Id("declaration", "own", ""),
      statements |-> <<Block(<<Var(Token("Identifier", "a", 18, 6),
      Variable(Token("Identifier", "a", 18, 10)))>>, FALSE)>>]

\*   { var a = 1; { var a = a + 1; print a; } }
D_own_nested ==
    [id |-> Id("declaration", "own_nested", ""),
      statements |-> <<Block(<<Var(Token("Identifier", "a", 19, 6),
      Literal([k |-> "Num", n |-> Fin(1, 1)])),
      Block(<<Var(Token("Identifier", "a", 19, 19),
      Binary(Variable(Token("Identifier", "a", 19, 23)), Token("Plus", "+",
      19, 25), Literal([k |-> "Num", n |-> Fin(1, 1)]))),
      PrintStmt(Variable(Token("Identifier", "a", 19, 36)))>>, FALSE)>>,
      FALSE)>>]

\*   { var a = (-a); }
D_own_grouped ==
    [id |-> Id("declaration", "own_grouped", ""),
      statements |-> <<Block(<<Var(Token("Identifier", "a", 20, 6),
      Grouping(Unary(Token("Minus", "-", 20, 11),
      Variable(Token("Identifier", "a", 20, 12)))))>>, FALSE)>>]

\*   { fun f(p) { return p; } var a = f(a); }
D_own_argument ==
    [id |-> Id("declaration", "own_argument", ""),
      statements |-> <<Block(<<FunctionStmt(Token("Identifier", "f", 21, 6),
      <<Token("Identifier", "p", 21, 8)>>, <<Return(Token("Return", "return",
      21, 13), <<Variable(Token("Identifier", "p", 21, 20))>>)>>),
      Var(Token("Identifier", "a", 21, 29), Call(Variable(Token("Identifier",
      "f", 21, 33)), Token("RightParen", ")", 21, 36),
      <<Variable(Token("Identifier", "a", 21, 35))>>))>>, FALSE)>>]

\*   { var b = 0; var a = b = a; }
D_own_assigned ==
    [id |-> Id("declaration", "own_assigned", ""),
      statements |-> <<Block(<<Var(Token("Identifier", "b", 22, 6),
      Literal([k |-> "Num", n |-> Fin(0, 1)])), Var(Token("Identifier", "a",
      22, 17), Assign(Token("Identifier", "b", 22, 21),
      Variable(Token("Identifier", "a", 22, 25))))>>, FALSE)>>]

\*   { var a = nil or a; }
D_own_logical ==
    [id |-> Id("declaration", "own_logical", ""),
      statements |-> <<Block(<<Var(Token("Identifier", "a", 23, 6),
      Logical(Literal([k |-> "Nil"]), Token("Or", "or", 23, 14),
      Variable(Token("Identifier", "a", 23, 17))))>>, FALSE)>>]

\*   { var a = 1; var a = a; }
D_own_again ==
    [id |-> Id("declaration", "own_again", ""),
      statements |-> <<Block(<<Var(Token("Identifier", "a", 24, 6),
      Literal([k |-> "Num", n |-> Fin(1, 1)])), Var(Token("Identifier", "a",
      24, 17), Variable(Token("Identifier", "a", 24, 21)))>>, FALSE)>>]

\*   { var a = 1; print a; var b = a; a = a + b; }
D_later ==
    [id |-> Id("declaration", "later", ""),
      statements |-> <<Block(<<Var(Token("Identifier", "a", 25, 6),
      Literal([k |-> "Num", n |-> Fin(1, 1)])),
      PrintStmt(Variable(Token("Identifier", "a", 25, 19))),
      Var(Token("Identifier", "b", 25, 26), Variable(Token("Identifier", "a",
      25, 30))), Expression(Assign(Token("Identifier", "a", 25, 33),
      Binary(Variable(Token("Identifier", "a", 25, 37)), Token("Plus", "+",
      25, 39), Variable(Token("Identifier", "b", 25, 41)))))>>, FALSE)>>]

\*   { var a = 1; { print a; { var b = a; } } }
D_later_nested ==
    [id |-> Id("declaration", "later_nested", ""),
      statements |-> <<Block(<<Var(Token("Identifier", "a", 26, 6),
      Literal([k |-> "Num", n |-> Fin(1, 1)])),
      Block(<<PrintStmt(Variable(Token("Identifier", "a", 26, 21))),
      Block(<<Var(Token("Identifier", "b", 26, 30),
      Variable(Token("Identifier", "a", 26, 34)))>>, FALSE)>>, FALSE)>>,
      FALSE)>>]

\*   { var a = 1; { var b = a; var a = b; print a; } }
D_other ==
    [id |-> Id("declaration", "other", ""),
      statements |-> <<Block(<<Var(Token("Identifier", "a", 27, 6),
      Literal([k |-> "Num", n |-> Fin(1, 1)])),
      Block(<<Var(Token("Identifier", "b", 27, 19),
      Variable(Token("Identifier", "a", 27, 23))), Var(Token("Identifier",
      "a", 27, 30), Variable(Token("Identifier", "b", 27, 34))),
      PrintStmt(Variable(Token("Identifier", "a", 27, 43)))>>, FALSE)>>,
      FALSE)>>]

\*   { var a = 0; while (a < 1) { var b = a; a = b + 1; }
\*     if (a) print a; else print a; }
D_while ==
    [id |-> Id("declaration", "while", ""),
      statements |-> <<Block(<<Var(Token("Identifier", "a", 28, 6),
      Literal([k |-> "Num", n |-> Fin(0, 1)])),
      While(Binary(Variable(Token("Identifier", "a", 28, 20)), Token("Less",
      "<", 28, 22), Literal([k |-> "Num", n |-> Fin(1, 1)])),
      Block(<<Var(Token("Identifier", "b", 28, 33),
      Variable(Token("Identifier", "a", 28, 37))),
      Expression(Assign(Token("Identifier", "a", 28, 40),
      Binary(Variable(Token("Identifier", "b", 28, 44)), Token("Plus", "+",
      28, 46), Literal([k |-> "Num", n |-> Fin(1, 1)]))))>>, FALSE)),
      If(Variable(Token("Identifier", "a", 28, 57)),
      PrintStmt(Variable(Token("Identifier", "a", 28, 66))),
      PrintStmt(Variable(Token("Identifier", "a", 28, 80))))>>, FALSE)>>]

\*   { { var a = 1 == a; } }
D_own_equal ==
    [id |-> Id("declaration", "own_equal", ""),
      statements |-> <<Block(<<Block(<<Var(Token("Identifier", "a", 29, 8),
      Binary(Literal([k |-> "Num", n |-> Fin(1, 1)]), Token("EqualEqual",
      "==", 29, 14), Variable(Token("Identifier", "a", 29, 17))))>>,
      FALSE)>>, FALSE)>>]

\*   { var a = 1; { var b = a; } { var a = a; } }
D_own_sibling ==
    [id |-> Id("declaration", "own_sibling", ""),
      statements |-> <<Block(<<Var(Token("Identifier", "a", 30, 6),
      Literal([k |-> "Num", n |-> Fin(1, 1)])),
      Block(<<Var(Token("Identifier", "b", 30, 19),
      Variable(Token("Identifier", "a", 30, 23)))>>, FALSE),
      Block(<<Var(Token("Identifier", "a", 30, 34),
      Variable(Token("Identifier", "a", 30, 38)))>>, FALSE)>>, FALSE)>>]

\*   { var a = 1; { var b = 2; var c = a + b; print c; } }
D_sum ==
    [id |-> Id("declaration", "sum", ""),
      statements |-> <<Block(<<Var(Token("Identifier", "a", 31, 6),
      Literal([k |-> "Num", n |-> Fin(1, 1)])),
      Block(<<Var(Token("Identifier", "b", 31, 19), Literal([k |-> "Num",
      n |-> Fin(2, 1)])), Var(Token("Identifier", "c", 31, 30),
      Binary(Variable(Token("Identifier", "a", 31, 34)), Token("Plus", "+",
      31, 36), Variable(Token("Identifier", "b", 31, 38)))),
      PrintStmt(Variable(Token("Identifier", "c", 31, 47)))>>, FALSE)>>,
      FALSE)>>]

\*   { var a = "x"; var b = a; { var a = b; print a; } }
D_copy ==
    [id |-> Id("declaration", "copy", ""),
      statements |-> <<Block(<<Var(Token("Identifier", "a", 32, 6),
      Literal([k |-> "String", s |-> "x"])), Var(Token("Identifier", "b", 32,
      19), Variable(Token("Identifier", "a", 32, 23))),
      Block(<<Var(Token("Identifier", "a", 32, 32),
      Variable(Token("Identifier", "b", 32, 36))),
      PrintStmt(Variable(Token("Identifier", "a", 32, 45)))>>, FALSE)>>,
      FALSE)>>]

\*   { fun f(p) { return p; } var a = 1; var b = f(a); b = f(b); }
D_call ==
    [id |-> Id("declaration", "call", ""),
      statements |-> <<Block(<<FunctionStmt(Token("Identifier", "f", 33, 6),
      <<Token("Identifier", "p", 33, 8)>>, <<Return(Token("Return", "return",
      33, 13), <<Variable(Token("Identifier", "p", 33, 20))>>)>>),
      Var(Token("Identifier", "a", 33, 29), Literal([k |-> "Num",
      n |-> Fin(1, 1)])), Var(Token("Identifier", "b", 33, 40),
      Call(Variable(Token("Identifier", "f", 33, 44)), Token("RightParen",
      ")", 33, 47), <<Variable(Token("Identifier", "a", 33, 46))>>)),
      Expression(Assign(Token("Identifier", "b", 33, 50),
      Call(Variable(Token("Identifier", "f", 33, 54)), Token("RightParen",
      ")", 33, 57), <<Variable(Token("Identifier", "b", 33, 56))>>)))>>,
      FALSE)>>]

Declarations ==
    {D_own, D_own_nested, D_own_grouped, D_own_argument, D_own_assigned,
     D_own_logical, D_own_again, D_own_equal, D_own_sibling, D_later,
     D_later_nested, D_other, D_while, D_sum, D_copy, D_call}

NextResolve == \E p \in Declarations : Resolve(p)

SpecResolve == Init /\ [][NextResolve]_vars

MaxSource == 4

SourceChars == {"o", "r", "_", "1", " ", "@", "\"", "U+00E9"}

Sources == UNION {[1..n -> SourceChars] : n \in 0..MaxSource}

Scan(source) ==
    LET done(r) ==
            /\ scanner' = r.sc
            /\ scanned' = [res |-> r.res,
                           tokens |-> IF r.res = "Ok" THEN r.tokens ELSE <<>>,
                           errors |-> IF r.res = "Err" THEN r.errors ELSE <<>>]
    IN  /\ scanned.res = "New"
        /\ done(scan_tokens(Scanner_new(source)))
        /\ UNCHANGED parser
        /\ UNCHANGED back

NextScan == \E source \in Sources : Scan(source)

SpecScan == Init /\ [][NextScan]_vars

(***************************************************************************)
(* Queries on a source, from the lexical grammar: the number of lexical    *)
(* errors in it (a character outside a string that no token starts with,   *)
(* and a string left open at the end), and the maximal runs of             *)
(* [a-zA-Z_][a-zA-Z_0-9]* in a source of letters, digits, '_' and blanks.  *)
(***************************************************************************)
Range(f) == {f[i] : i \in DOMAIN f}

RECURSIVE LexicalErrors(_, _, _)
LexicalErrors(source, i, in_string) ==
    IF i > Len(source) THEN (IF in_string THEN 1 ELSE 0)
    ELSE IF source[i] = "\"" THEN LexicalErrors(source, i + 1, ~in_string)
    ELSE IF in_string THEN LexicalErrors(source, i + 1, TRUE)
    ELSE (IF source[i] \in {"@", "#", "U+00E9"} THEN 1 ELSE 0)
         + LexicalErrors(source, i + 1, FALSE)

\* mode is "out", "run" (in a run, whose characters so far are run) or
\* "num" (in a number)
RECURSIVE Runs(_, _, _, _)
Runs(source, i, run, mode) ==
    LET closed == IF mode = "run" THEN <<Join(run)>> ELSE <<>>
    IN  IF i > Len(source) THEN closed
        ELSE IF source[i] \in Lower \cup Upper \cup {"_"}
        THEN IF mode = "run"
             THEN Runs(source, i + 1, Append(run, source[i]), "run")
             ELSE Runs(source, i + 1, <<source[i]>>, "run")
        ELSE IF source[i] \in Digits
        THEN IF mode = "run"
             THEN Runs(source, i + 1, Append(run, source[i]), "run")
             ELSE Runs(source, i + 1, <<>>, "num")
        ELSE closed \o Runs(source, i + 1, <<>>, "out")

KeywordLexemes ==
    {"and", "class", "else", "false", "for", "fun", "if", "nil", "or",
     "print", "return", "super", "this", "true", "var", "while"}

\* the last scan returned as the grammar says: the tokens, ending in the
\* one EOF, when the source has no lexical error, and else one error for
\* each
ScannedAsClaimed ==
    LET n == LexicalErrors(scanner.source, 1, FALSE)
        eofs == {i \in DOMAIN scanned.tokens :
                    scanned.tokens[i].token_type = "EOF"}
    IN  /\ scanned.res \in {"Ok", "Err"}
        /\ scanned.res = "Ok" <=> n = 0
        /\ scanned.res = "Ok" => eofs = {Len(scanned.tokens)}
        /\ scanned.res = "Err" => Len(scanned.errors) = n

\* the last scan made one token of each run: the keyword when the run is
\* one, an Identifier with the run as its lexeme otherwise
RunsAsClaimed ==
    LET runs == Runs(scanner.source, 1, <<>>, "out")
        words == SelectSeq(scanner.tokens,
                           LAMBDA t : t.token_type \notin {"Number", "EOF"})
    IN  /\ scanned.res = "Ok"
        /\ Len(words) = Len(runs)
        /\ \A i \in 1..Len(runs) :
               /\ words[i].lexeme = runs[i]
               /\ words[i].token_type = "Identifier"
                      <=> runs[i] \notin KeywordLexemes
               /\ runs[i] = "or" => words[i].token_type = "Or"

(***************************************************************************)
(* C16.  scan_tokens returns the token list exactly when the source has    *)
(* no lexical error, and the list then holds one EOF token, its last       *)
(* element; a character that starts no token does not stop the scan: the   *)
(* scan goes on to the end of the source and returns one error for each.   *)
(* (Sources with a '_' are left to C17.)                                   *)
(***************************************************************************)
C16_ScanResult ==
    scanned.res /= "New" /\ "_" \notin Range(scanner.source) =>
        ScannedAsClaimed

\* what the code does: the above on the sources of one-byte characters
C16_OneByteScanResult ==
    ( /\ scanned.res /= "New"
      /\ "_" \notin Range(scanner.source)
      /\ Range(scanner.source) \subseteq Ascii ) => ScannedAsClaimed

\* "@o@": two errors, and the scan went past both to the `o` between them
C16_ScanWentOn ==
    /\ scanner.source = <<"@", "o", "@">>
    /\ scanned.res = "Err"
    /\ Len(scanned.errors) = 2
    /\ \E i \in DOMAIN scanner.tokens : scanner.tokens[i].lexeme = "o"

(***************************************************************************)
(* C17.  In a source of letters, digits, '_' and blanks, every maximal run *)
(* of [a-zA-Z_][a-zA-Z_0-9]* becomes exactly one token: the keyword token  *)
(* when the run is a keyword, else an Identifier whose lexeme is the run;  *)
(* so for a run that starts with '_' and for one that begins with a        *)
(* keyword.                                                                *)
(***************************************************************************)
C17_IdentifierRuns ==
    ( /\ scanned.res /= "New"
      /\ Range(scanner.source)
             \subseteq Lower \cup Upper \cup Digits \cup {"_", " "} )
        => RunsAsClaimed

\* what the code does: the above for the runs that start with a letter
C17_LetterRuns ==
    ( /\ scanned.res /= "New"
      /\ Range(scanner.source)
             \subseteq Lower \cup Upper \cup Digits \cup {"_", " "}
      /\ \A i \in DOMAIN scanner.source :
             scanner.source[i] = "_" =>
                 i > 1 /\ scanner.source[i - 1] \in Lower \cup Upper \cup {"_"} )
        => RunsAsClaimed

\* "oro_" is one Identifier, though it begins with the keyword `or`
C17_KeywordPrefix ==
    /\ scanner.source = <<"o", "r", "o", "_">>
    /\ scanned.res = "Ok"
    /\ Len(scanned.tokens) = 2
    /\ scanned.tokens[1].token_type = "Identifier"
    /\ scanned.tokens[1].lexeme = "oro_"

(***************************************************************************)
(* The parser as a state machine.  A step is the rest of run on one file:  *)
(* Parse is Parser::new(tokens) followed by parse, Run is that followed by *)
(* Interpreter::interpret of the statements when the parse recorded no     *)
(* error.  The tokens are the ones of a source written as words, every     *)
(* token on line 1 and at the position that is its number in the source.   *)
(***************************************************************************)
Punctuation(lexeme) ==
    CASE lexeme = "(" -> "LeftParen"
      [] lexeme = ")" -> "RightParen"
      [] lexeme = "{" -> "LeftBrace"
      [] lexeme = "}" -> "RightBrace"
      [] lexeme = ";" -> "Semicolon"
      [] lexeme = "+" -> "Plus"
      [] lexeme = "=" -> "Equal"
      [] lexeme = "<" -> "Less"
      [] lexeme = ">" -> "Greater"

\* a keyword or a punctuation mark, a name, a number and a string
Sym(lexeme) ==
    [token_type |-> IF keywords(lexeme) /= <<>> THEN keywords(lexeme)[1]
                    ELSE Punctuation(lexeme),
     lexeme |-> lexeme, literal |-> <<>>]

Name(lexeme) ==
    [token_type |-> "Identifier", lexeme |-> lexeme, literal |-> <<>>]

Num(n) ==
    [token_type |-> "Number", lexeme |-> ToString(n),
     literal |-> <<[k |-> "Num", n |-> Fin(n, 1)]>>]

Str(s) ==
    [token_type |-> "String", lexeme |-> "\"" \o s \o "\"",
     literal |-> <<[k |-> "String", s |-> s]>>]

\* the statements a source is put together from; the ones of a bad_ kind
\* fail to parse, each at one place and before its `;`, and hold no
\* keyword after that place but for bad_if
Snippet(kind, n) ==
    CASE kind = "print" ->          \* print n;
           <<Sym("print"), Num(n), Sym(";")>>
      [] kind = "var" ->            \* var a = n;
           <<Sym("var"), Name("a"), Sym("="), Num(n), Sym(";")>>
      [] kind = "bad_var" ->        \* var = 7;
           <<Sym("var"), Sym("="), Num(7), Sym(";")>>
      [] kind = "bad_print" ->      \* print ;
           <<Sym("print"), Sym(";")>>
      [] kind = "bad_group" ->      \* (7;
           <<Sym("("), Num(7), Sym(";")>>
      [] kind = "bad_target" ->     \* 7 = 8;
           <<Num(7), Sym("="), Num(8), Sym(";")>>
      [] kind = "bad_sum" ->        \* a + b = c;
           <<Name("a"), Sym("+"), Name("b"), Sym("="), Name("c"), Sym(";")>>
      [] kind = "bad_if" ->         \* if (7 = 8) print 8; else print 9;
           <<Sym("if"), Sym("("), Num(7), Sym("="), Num(8), Sym(")"),
             Sym("print"), Num(8), Sym(";"), Sym("else"), Sym("print"),
             Num(9), Sym(";")>>

Kinds ==
    {"print", "var", "bad_var", "bad_print", "bad_group", "bad_target",
     "bad_sum", "bad_if"}

Bad(kind) == kind \notin {"print", "var"}

\* the place of the `=` of an invalid assignment in its snippet
EqualsAt(kind) == IF kind = "bad_target" THEN 2 ELSE 4

MaxDepth == 2

\* The source  {..{ S1 S2 }..} S3  with a braces around the first two
\* statements, Si of the kind b[i] and on the number i
Nests == {Id("nest", a, b) : a \in 0..MaxDepth, b \in [1..3 -> Kinds]}

\* a source as its pieces: the words of a statement and its slot, the
\* braces in slot 0
Pieces(prog) ==
    LET braces(lexeme) ==
            [i \in 1..prog.a |-> [words |-> <<Sym(lexeme)>>, slot |-> 0]]
        piece(i) == [words |-> Snippet(prog.b[i], i), slot |-> i]
    IN  braces("{") \o <<piece(1), piece(2)>> \o braces("}") \o <<piece(3)>>

\* the position before the first word of the statement in a slot
RECURSIVE Offset(_, _)
Offset(pieces, slot) ==
    IF Head(pieces).slot = slot THEN 0
    ELSE Len(Head(pieces).words) + Offset(Tail(pieces), slot)

\* the tokens of the pieces in the slots kept, each where it is in the
\* whole source, and the EOF after them
RECURSIVE Place(_, _, _)
Place(pieces, kept, at) ==
    IF Len(pieces) = 0
    THEN <<[token_type |-> "EOF", lexeme |-> "", literal |-> <<>>,
            line |-> 1, position |-> at + 1]>>
    ELSE LET words == Head(pieces).words
             here == [i \in 1..Len(words) |->
                         [token_type |-> words[i].token_type,
                          lexeme |-> words[i].lexeme,
                          literal |-> words[i].literal,
                          line |-> 1, position |-> at + i]]
         IN  (IF Head(pieces).slot \in kept THEN here ELSE <<>>)
             \o Place(Tail(pieces), kept, at + Len(words))

Tokens(words) == Place(<<[words |-> words, slot |-> 0]>>, {0}, 0)

\* The loops.  A program of the family "for" is
\*   fun f() { var i = 7; LOOP print i; return "end"; } print f();
\* where LOOP is  for (INIT; COND; INCR) BODY  with the clauses a and the
\* body b, and the one of "while" has  { INIT; while (COND) { BODY INCR; } }
\* for LOOP, with true for a COND left out; one of "example" is the loop
\* alone, as  for (var i = 0; i < 3; i = i + 1) print i;  and one of
\* "scope" the loop followed by  print i;
Clause(part, choice) ==
    CASE choice = "none" -> <<>>
      [] part = "init" /\ choice = "var" ->       \* var i = 0
           <<Sym("var"), Name("i"), Sym("="), Num(0)>>
      [] part = "init" /\ choice = "set" ->       \* i = 0
           <<Name("i"), Sym("="), Num(0)>>
      [] part = "cond" /\ choice = "less" ->      \* i < 3
           <<Name("i"), Sym("<"), Num(3)>>
      [] part = "incr" /\ choice = "step" ->      \* i = i + 1
           <<Name("i"), Sym("="), Name("i"), Sym("+"), Num(1)>>

Body(choice) ==
    CASE choice = "print" ->        \* print i;
           <<Sym("print"), Name("i"), Sym(";")>>
      [] choice = "shadow" ->       \* { var i = 9; print i; }
           <<Sym("{"), Sym("var"), Name("i"), Sym("="), Num(9), Sym(";"),
             Sym("print"), Name("i"), Sym(";"), Sym("}")>>
      [] choice = "count" ->
           \* { print i; i = i + 1; if (i > 4) return "big"; }
           <<Sym("{"), Sym("print"), Name("i"), Sym(";"), Name("i"),
             Sym("="), Name("i"), Sym("+"), Num(1), Sym(";"), Sym("if"),
             Sym("("), Name("i"), Sym(">"), Num(4), Sym(")"), Sym("return"),
             Str("big"), Sym(";"), Sym("}")>>

ForLoop(init, cond, incr, body) ==
    <<Sym("for"), Sym("(")>> \o init \o <<Sym(";")>> \o cond
    \o <<Sym(";")>> \o incr \o <<Sym(")")>> \o body

WhileLoop(init, cond, incr, body) ==
    <<Sym("{")>> \o init \o (IF Len(init) > 0 THEN <<Sym(";")>> ELSE <<>>)
    \o <<Sym("while"), Sym("(")>>
    \o (IF Len(cond) > 0 THEN cond ELSE <<Sym("true")>>)
    \o <<Sym(")"), Sym("{")>> \o body
    \o incr \o (IF Len(incr) > 0 THEN <<Sym(";")>> ELSE <<>>)
    \o <<Sym("}"), Sym("}")>>

\* the words of a loop program, in the form "for" or "while"
LoopWords(prog, form) ==
    LET loop(init, cond, incr, body) ==
            IF form = "for" THEN ForLoop(init, cond, incr, body)
            ELSE WhileLoop(init, cond, incr, body)
        words == loop(Clause("init", prog.a[1]), Clause("cond", prog.a[2]),
                      Clause("incr", prog.a[3]), Body(prog.b))
    IN  CASE prog.fam = "example" -> words
          [] prog.fam = "scope" ->
               words \o <<Sym("print"), Name("i"), Sym(";")>>
          [] prog.fam = "for" ->
               <<Sym("fun"), Name("f"), Sym("("), Sym(")"), Sym("{"),
                 Sym("var"), Name("i"), Sym("="), Num(7), Sym(";")>>
               \o words
               \o <<Sym("print"), Name("i"), Sym(";"), Sym("return"),
                    Str("end"), Sym(";"), Sym("}"), Sym("print"), Name("f"),
                    Sym("("), Sym(")"), Sym(";")>>

\* the loops that end: the body "count" ends every loop, and the others
\* need a condition and something that makes it false
Loops ==
    {Id("example", <<"var", "less", "step">>, "print"),
     Id("scope", <<"var", "less", "step">>, "print")}
    \cup {Id("for", <<init, cond, incr>>, body) :
             init \in {"none", "var", "set"}, cond \in {"none", "less"},
             incr \in {"none", "step"}, body \in {"count"}}
    \cup {prog \in {Id("for", <<init, "less", incr>>, body) :
                       init \in {"none", "var", "set"},
                       incr \in {"none", "step"},
                       body \in {"print", "shadow"}} :
             prog.a[3] = "step" \/ prog.a[1] = "none"}

\* Interpreter::new()
Interpreter_new ==
    [envs |-> <<Environment_new>>, environment |-> 1, out |-> <<>>,
     trace |-> <<>>, nclone |-> 0]

\* run, after the scan: the statements are interpreted when the parse
\* recorded no error, and the first error is the result otherwise
back_end(p, st) ==
    IF Len(p.errors) = 0 THEN interpret(p.statements, 1, st)
    ELSE Err(p.errors[1], st)

run(tokens, st) == back_end(parse(Parser_new(tokens)), st)

\* what a parse leaves: the parser p after parse, for the source prog
Parsed(p, prog) ==
    /\ last.op = "new"
    /\ parser' = p
    /\ last' = [op |-> "parse", p |-> prog]
    /\ UNCHANGED <<envs, environment, locals, scopes, errors, out, trace,
                   nclone, status, calls, resolved, scanner, scanned>>

Parse(prog) == Parsed(parse(Parser_new(Place(Pieces(prog), 0..3, 0))), prog)

\* what a run leaves: the parser p after parse and the result r of the
\* back end on it
RunEnds(p, r, prog) ==
    /\ last.op = "new"
    /\ parser' = p
    /\ envs' = r.st.envs
    /\ environment' = r.st.environment
    /\ out' = r.st.out
    /\ trace' = r.st.trace
    /\ nclone' = r.st.nclone
    /\ status' = [res |-> r.res,
                  err |-> IF r.res = "Err" THEN r.err ELSE NoError]
    /\ calls' = calls + 1
    /\ last' = [op |-> "run", p |-> prog]
    /\ UNCHANGED <<locals, scopes, errors, resolved, scanner, scanned>>

RunParsed(p, prog) == RunEnds(p, back_end(p, Start), prog)

Run(prog) == RunParsed(parse(Parser_new(Tokens(LoopWords(prog, "for")))), prog)

NextParse ==
    \/ \E prog \in Nests : Parse(prog)
    \/ \E prog \in Loops : Run(prog)

SpecParse == Init /\ [][NextParse]_vars

(***************************************************************************)
(* Queries on the last parse.                                              *)
(***************************************************************************)
\* the statements of a list and of the blocks in it, at any depth
RECURSIVE Within(_)
Within(statements) ==
    UNION {{statements[i]}
           \cup (IF statements[i].kind = "Block"
                 THEN Within(statements[i].statements) ELSE {}) :
           i \in DOMAIN statements}

BadSlots(prog) == {i \in 1..3 : Bad(prog.b[i])}

\* the well-formed statements that start after a failing one has ended
SlotsAfter(prog) ==
    {i \in 1..3 : ~Bad(prog.b[i]) /\ \E j \in 1..(i - 1) : Bad(prog.b[j])}

\* the statement of slot i, print i; or var a = i;, is in the parser's list
InList(i) ==
    \E s \in Within(parser.statements) :
        \/ s.kind = "Print" /\ s.expr = Literal(Num(i).literal[1])
        \/ s.kind = "Var" /\ s.initializer = Literal(Num(i).literal[1])

\* the k-th of a set of numbers, from the least
RECURSIVE Kth(_, _)
Kth(set, k) ==
    LET least == CHOOSE i \in set : \A j \in set : i <= j
    IN  IF k = 1 THEN least ELSE Kth(set \ {least}, k - 1)

\* one error for each failing statement, in their order and each at a
\* token of its statement, and every well-formed statement after one of
\* them in the list
RecoveredAsClaimed ==
    LET prog == last.p
        bad == BadSlots(prog)
        start(k) == Offset(Pieces(prog), Kth(bad, k))
    IN  /\ Len(parser.errors) = Cardinality(bad)
        /\ \A k \in 1..Cardinality(bad) :
               /\ parser.errors[k].position > start(k)
               /\ parser.errors[k].position
                      <= start(k) + Len(Snippet(prog.b[Kth(bad, k)], 0))
        /\ \A i \in SlotsAfter(prog) : InList(i)

\* the errors are the invalid assignments, one for each and at its `=`,
\* and every well-formed statement after one of them is in the list
ReportedAsClaimed ==
    LET prog == last.p
        bad == BadSlots(prog)
        equals(k) ==
            Offset(Pieces(prog), Kth(bad, k)) + EqualsAt(prog.b[Kth(bad, k)])
    IN  /\ Len(parser.errors) = Cardinality(bad)
        /\ \A k \in 1..Cardinality(bad) :
               parser.errors[k]
                   = LoxError(1, "Invalid assignment target.", equals(k))
        /\ \A i \in SlotsAfter(prog) : InList(i)

\* no failing statement of the source is inside a block
FailuresAtTopLevel ==
    last.p.a = 0 \/ (~Bad(last.p.b[1]) /\ ~Bad(last.p.b[2]))

(***************************************************************************)
(* C18.  A declaration that fails to parse gets exactly one error, and the *)
(* parser goes on with the declarations from the token after the `;` that  *)
(* ends the panic: no well-formed statement that starts there or later is  *)
(* skipped and no further error is recorded, also when the failing         *)
(* declaration is inside one or more blocks.  (On sources whose failing    *)
(* statements end with their `;` and hold no keyword after the failure.)   *)
(***************************************************************************)
C18_PanicModeRecovery ==
    ( /\ last.op = "parse"
      /\ \A i \in 1..3 : last.p.b[i] /= "bad_if" ) => RecoveredAsClaimed

\* what the code does: the above when no failing statement is in a block
C18_TopLevelRecovery ==
    ( /\ last.op = "parse"
      /\ \A i \in 1..3 : last.p.b[i] /= "bad_if"
      /\ FailuresAtTopLevel ) => RecoveredAsClaimed

\* var = 7; print 2; print 3;  gives one error and the two statements
C18_RecoveredAtTopLevel ==
    /\ last.op = "parse"
    /\ last.p = Id("nest", 0, <<"bad_var", "print", "print">>)
    /\ Len(parser.errors) = 1
    /\ parser.errors[1].message = "Expected variable name."
    /\ Len(parser.statements) = 2

(***************************************************************************)
(* C19.  An assignment to something that is not a variable (7 = 8,         *)
(* a + b = c) reports one error, located at the `=`, and parsing goes on:  *)
(* in a source whose only faults are such assignments the errors are       *)
(* those, one for each, and the statements after the one that holds the    *)
(* assignment are in the statement list.                                   *)
(***************************************************************************)
C19_InvalidAssignmentTarget ==
    ( /\ last.op = "parse"
      /\ BadSlots(last.p) /= {}
      /\ \A i \in BadSlots(last.p) :
             last.p.b[i] \in {"bad_target", "bad_sum", "bad_if"} )
        => ReportedAsClaimed

\* what the code does: the above when the assignments are expression
\* statements outside every block
C19_TopLevelStatement ==
    ( /\ last.op = "parse"
      /\ BadSlots(last.p) /= {}
      /\ \A i \in BadSlots(last.p) :
             last.p.b[i] \in {"bad_target", "bad_sum"}
      /\ FailuresAtTopLevel ) => ReportedAsClaimed

\* 7 = 8; print 2; print 3;  gives the error at the `=`, the second token,
\* and the two statements
C19_ReportedAtEquals ==
    /\ last.op = "parse"
    /\ last.p = Id("nest", 0, <<"bad_target", "print", "print">>)
    /\ parser.errors = <<LoxError(1, "Invalid assignment target.", 2)>>
    /\ Len(parser.statements) = 2

(***************************************************************************)
(* C20.  A for loop runs as  { init; while (cond) { body; incr } }  with   *)
(* true for a cond left out and nothing for an init or incr left out: the  *)
(* program prints the same lines and ends the same way, in an error with   *)
(* the same message if in one; the variable of an init is gone after the   *)
(* loop, and  for (var i = 0; i < 3; i = i + 1) print i;  prints 0, 1, 2.  *)
(***************************************************************************)
C20_ForAsWhile ==
    LET same(twin) ==
            /\ status.res = twin.res
            /\ out = twin.st.out
            /\ status.res = "Err" => status.err.message = twin.err.message
    IN  last.op = "run" =>
            /\ same(run(Tokens(LoopWords(last.p, "while")), Interpreter_new))
            /\ last.p.fam = "example" =>
                   status.res = "Ok" /\ out = <<"0", "1", "2">>
            /\ last.p.fam = "scope" =>
                   /\ out = <<"0", "1", "2">>
                   /\ status.res = "Err"
                   /\ status.err.message = Undefined(Tokens(<<Name("i")>>)[1]).message

\* a loop with all three clauses ran its body three times, and the outer i
\* was printed after it
C20_ThreeIterations ==
    /\ last.op = "run"
    /\ last.p = Id("for", <<"var", "less", "step">>, "print")
    /\ status.res = "Ok"
    /\ out = <<"0", "1", "2", "7", "end">>

(***************************************************************************)
(* Calls, callables and returns.  A step is one program of the families    *)
(* below on a new interpreter: Interpreter::interpret of the program, or   *)
(* the visitor's eval of its one statement.                                *)
(***************************************************************************)

ResultBody(b) ==
    CASE b = "empty" ->       \* (nothing)
           <<>>
      [] b = "local" ->       \* var w = v;
           <<Var(Token("Identifier", "w", 42, 4),
             Variable(Token("Identifier", "v", 42, 8)))>>
      [] b = "untaken" ->       \* if (false) return v;
           <<If(Literal([k |-> "False"]), Return(Token("Return", "return",
             43, 11), <<Variable(Token("Identifier", "v", 43, 18))>>),
             Expression(Literal([k |-> "Nil"])))>>
      [] b = "bare" ->       \* return;
           <<Return(Token("Return", "return", 44, 0), <<>>)>>
      [] b = "nested_bare" ->       \* { if (true) { return; } } return v;
           <<Block(<<If(Literal([k |-> "True"]),
             Block(<<Return(Token("Return", "return", 45, 14), <<>>)>>,
             FALSE), Expression(Literal([k |-> "Nil"])))>>, FALSE),
             Return(Token("Return", "return", 45, 26),
             <<Variable(Token("Identifier", "v", 45, 33))>>)>>
      [] b = "loop_bare" ->       \* while (true) { return; }
           <<While(Literal([k |-> "True"]), Block(<<Return(Token("Return",
             "return", 46, 15), <<>>)>>, FALSE))>>
      [] b = "value" ->       \* return v;
           <<Return(Token("Return", "return", 47, 0),
             <<Variable(Token("Identifier", "v", 47, 7))>>)>>
      [] b = "nested_value" ->       \* while (true) { { return v; } }
           <<While(Literal([k |-> "True"]),
             Block(<<Block(<<Return(Token("Return", "return", 48, 17),
             <<Variable(Token("Identifier", "v", 48, 24))>>)>>, FALSE)>>,
             FALSE))>>

\*   { fun f() {} fun g() {} fun u() { return; } fun h(v) { <b> } var r = h(<a>); print r; var isnil = r == nil; }
F_result(a, b) ==
    [id |-> Id("result", a, b),
      statements |-> <<Block(<<FunctionStmt(Token("Identifier", "f", 40, 6),
      <<>>, <<>>), FunctionStmt(Token("Identifier", "g", 40, 17), <<>>,
      <<>>), FunctionStmt(Token("Identifier", "u", 40, 28), <<>>,
      <<Return(Token("Return", "return", 40, 34), <<>>)>>),
      FunctionStmt(Token("Identifier", "h", 40, 48), <<Token("Identifier",
      "v", 40, 50)>>, ResultBody(b)), Var(Token("Identifier", "r", 40, 67),
      Call(Variable(Token("Identifier", "h", 40, 71)), Token("RightParen",
      ")", 40, 75), <<Atom(a, 73)>>)), PrintStmt(Variable(Token("Identifier",
      "r", 40, 84))), Var(Token("Identifier", "isnil", 40, 91),
      Binary(Variable(Token("Identifier", "r", 40, 99)), Token("EqualEqual",
      "==", 40, 101), Literal([k |-> "Nil"])))>>, FALSE)>>]

ResultKinds ==
    {"empty", "local", "untaken", "bare", "nested_bare", "loop_bare",
     "value", "nested_value"}

Results == {F_result(a, b) : a \in Atoms, b \in ResultKinds}

\*   { fun f() {} fun g() {} fun k(p) {} fun mk() { fun in() {} return in; } var c = f; var m1 = mk(); var m2 = mk(); print <a> == <b>; }
F_callable(a, b) ==
    [id |-> Id("callable", a, b),
      statements |-> <<Block(<<FunctionStmt(Token("Identifier", "f", 50, 6),
      <<>>, <<>>), FunctionStmt(Token("Identifier", "g", 50, 17), <<>>,
      <<>>), FunctionStmt(Token("Identifier", "k", 50, 28),
      <<Token("Identifier", "p", 50, 30)>>, <<>>),
      FunctionStmt(Token("Identifier", "mk", 50, 40), <<>>,
      <<FunctionStmt(Token("Identifier", "in", 50, 51), <<>>, <<>>),
      Return(Token("Return", "return", 50, 59),
      <<Variable(Token("Identifier", "in", 50, 66))>>)>>),
      Var(Token("Identifier", "c", 50, 76), Variable(Token("Identifier", "f",
      50, 80))), Var(Token("Identifier", "m1", 50, 87),
      Call(Variable(Token("Identifier", "mk", 50, 92)), Token("RightParen",
      ")", 50, 95), <<>>)), Var(Token("Identifier", "m2", 50, 102),
      Call(Variable(Token("Identifier", "mk", 50, 107)), Token("RightParen",
      ")", 50, 110), <<>>)), PrintStmt(Binary(Variable(Token("Identifier", a,
      50, 119)), Token("EqualEqual", "==", 50, 122),
      Variable(Token("Identifier", b, 50, 125))))>>, FALSE)>>]

\*   { var i = 0; var first = nil; while (i < 2) { fun w() {} if (i == 0) first = w; else print first == w; i = i + 1; } }
P_redeclared ==
    [id |-> Id("redeclared", "", ""),
      statements |-> <<Block(<<Var(Token("Identifier", "i", 51, 6),
      Literal([k |-> "Num", n |-> Fin(0, 1)])), Var(Token("Identifier",
      "first", 51, 17), Literal([k |-> "Nil"])),
      While(Binary(Variable(Token("Identifier", "i", 51, 37)), Token("Less",
      "<", 51, 39), Literal([k |-> "Num", n |-> Fin(2, 1)])),
      Block(<<FunctionStmt(Token("Identifier", "w", 51, 50), <<>>, <<>>),
      If(Binary(Variable(Token("Identifier", "i", 51, 61)),
      Token("EqualEqual", "==", 51, 63), Literal([k |-> "Num", n |-> Fin(0,
      1)])), Expression(Assign(Token("Identifier", "first", 51, 69),
      Variable(Token("Identifier", "w", 51, 77)))),
      PrintStmt(Binary(Variable(Token("Identifier", "first", 51, 91)),
      Token("EqualEqual", "==", 51, 97), Variable(Token("Identifier", "w",
      51, 100))))), Expression(Assign(Token("Identifier", "i", 51, 103),
      Binary(Variable(Token("Identifier", "i", 51, 107)), Token("Plus", "+",
      51, 109), Literal([k |-> "Num", n |-> Fin(1, 1)]))))>>, FALSE))>>,
      FALSE)>>]

\* the names of F_callable and the declaration each one's value comes from
Declaration ==
    [f |-> "f", c |-> "f", g |-> "g", k |-> "k", m1 |-> "in", m2 |-> "in",
     mk |-> "mk"]

Callables == {F_callable(a, b) : a \in DOMAIN Declaration,
                                 b \in DOMAIN Declaration}

CaptureBody(b) ==
    CASE b = "later" ->       \* fun show() { print later; } var later = arg; show();
           <<FunctionStmt(Token("Identifier", "show", 61, 4), <<>>,
             <<PrintStmt(Variable(Token("Identifier", "later", 61, 19)))>>),
             Var(Token("Identifier", "later", 61, 32),
             Variable(Token("Identifier", "arg", 61, 40))),
             Expression(Call(Variable(Token("Identifier", "show", 61, 45)),
             Token("RightParen", ")", 61, 50), <<>>))>>
      [] b = "later_in_function" ->       \* fun outer(v) { fun show() { print later; } var later = v; show(); } outer(arg);
           <<FunctionStmt(Token("Identifier", "outer", 62, 4),
             <<Token("Identifier", "v", 62, 10)>>,
             <<FunctionStmt(Token("Identifier", "show", 62, 19), <<>>,
             <<PrintStmt(Variable(Token("Identifier", "later", 62, 34)))>>),
             Var(Token("Identifier", "later", 62, 47),
             Variable(Token("Identifier", "v", 62, 55))),
             Expression(Call(Variable(Token("Identifier", "show", 62, 58)),
             Token("RightParen", ")", 62, 63), <<>>))>>),
             Expression(Call(Variable(Token("Identifier", "outer", 62, 68)),
             Token("RightParen", ")", 62, 77), <<Variable(Token("Identifier",
             "arg", 62, 74))>>))>>
      [] b = "reassigned" ->       \* var x = nil; fun show() { print x; } x = arg; show();
           <<Var(Token("Identifier", "x", 63, 4), Literal([k |-> "Nil"])),
             FunctionStmt(Token("Identifier", "show", 63, 17), <<>>,
             <<PrintStmt(Variable(Token("Identifier", "x", 63, 32)))>>),
             Expression(Assign(Token("Identifier", "x", 63, 37),
             Variable(Token("Identifier", "arg", 63, 41)))),
             Expression(Call(Variable(Token("Identifier", "show", 63, 46)),
             Token("RightParen", ")", 63, 51), <<>>))>>
      [] b = "recursion" ->       \* fun rec(n, v) { if (n > 0) rec(n - 1, v); else print v; } rec(2, arg);
           <<FunctionStmt(Token("Identifier", "rec", 64, 4),
             <<Token("Identifier", "n", 64, 8), Token("Identifier", "v", 64,
             11)>>, <<If(Binary(Variable(Token("Identifier", "n", 64, 20)),
             Token("Greater", ">", 64, 22), Literal([k |-> "Num",
             n |-> Fin(0, 1)])), Expression(Call(Variable(Token("Identifier",
             "rec", 64, 27)), Token("RightParen", ")", 64, 39),
             <<Binary(Variable(Token("Identifier", "n", 64, 31)),
             Token("Minus", "-", 64, 33), Literal([k |-> "Num", n |-> Fin(1,
             1)])), Variable(Token("Identifier", "v", 64, 38))>>)),
             PrintStmt(Variable(Token("Identifier", "v", 64, 53))))>>),
             Expression(Call(Variable(Token("Identifier", "rec", 64, 58)),
             Token("RightParen", ")", 64, 68), <<Literal([k |-> "Num",
             n |-> Fin(2, 1)]), Variable(Token("Identifier", "arg", 64,
             65))>>))>>
      [] b = "recursion_in_function" ->       \* fun outer(v) { fun rec(n) { if (n > 0) rec(n - 1); else print v; } rec(2); } outer(arg);
           <<FunctionStmt(Token("Identifier", "outer", 65, 4),
             <<Token("Identifier", "v", 65, 10)>>,
             <<FunctionStmt(Token("Identifier", "rec", 65, 19),
             <<Token("Identifier", "n", 65, 23)>>,
             <<If(Binary(Variable(Token("Identifier", "n", 65, 32)),
             Token("Greater", ">", 65, 34), Literal([k |-> "Num",
             n |-> Fin(0, 1)])), Expression(Call(Variable(Token("Identifier",
             "rec", 65, 39)), Token("RightParen", ")", 65, 48),
             <<Binary(Variable(Token("Identifier", "n", 65, 43)),
             Token("Minus", "-", 65, 45), Literal([k |-> "Num", n |-> Fin(1,
             1)]))>>)), PrintStmt(Variable(Token("Identifier", "v", 65,
             62))))>>), Expression(Call(Variable(Token("Identifier", "rec",
             65, 67)), Token("RightParen", ")", 65, 72),
             <<Literal([k |-> "Num", n |-> Fin(2, 1)])>>))>>),
             Expression(Call(Variable(Token("Identifier", "outer", 65, 77)),
             Token("RightParen", ")", 65, 86), <<Variable(Token("Identifier",
             "arg", 65, 83))>>))>>

\*   { fun f() {} fun g() {} fun u() { return; } var arg = <a>; <b> }
F_capture(a, b) ==
    [id |-> Id("capture", a, b),
      statements |-> <<Block(<<FunctionStmt(Token("Identifier", "f", 60, 6),
      <<>>, <<>>), FunctionStmt(Token("Identifier", "g", 60, 17), <<>>,
      <<>>), FunctionStmt(Token("Identifier", "u", 60, 28), <<>>,
      <<Return(Token("Return", "return", 60, 34), <<>>)>>),
      Var(Token("Identifier", "arg", 60, 48), Atom(a,
      54))>> \o CaptureBody(b), FALSE)>>]

CaptureKinds ==
    {"later", "later_in_function", "reassigned", "recursion",
     "recursion_in_function"}

Captures == {F_capture(a, b) : a \in Atoms, b \in CaptureKinds}

ReturnBody(a, b) ==
    CASE b = "bare" ->       \* return AA;
           <<Return(Token("Return", "return", 71, 0), <<Atom(a, 7)>>)>>
      [] b = "void" ->       \* return;
           <<Return(Token("Return", "return", 72, 0), <<>>)>>
      [] b = "block" ->       \* { print "b"; return AA; print "dead"; }
           <<Block(<<PrintStmt(Literal([k |-> "String", s |-> "b"])),
             Return(Token("Return", "return", 73, 13), <<Atom(a, 20)>>),
             PrintStmt(Literal([k |-> "String", s |-> "dead"]))>>, FALSE)>>
      [] b = "nested" ->       \* { { print "b"; return AA; } print "dead"; }
           <<Block(<<Block(<<PrintStmt(Literal([k |-> "String", s |-> "b"])),
             Return(Token("Return", "return", 74, 15), <<Atom(a, 22)>>)>>,
             FALSE), PrintStmt(Literal([k |-> "String", s |-> "dead"]))>>,
             FALSE)>>
      [] b = "loop" ->       \* while (true) { print "b"; return AA; print "dead"; }
           <<While(Literal([k |-> "True"]),
             Block(<<PrintStmt(Literal([k |-> "String", s |-> "b"])),
             Return(Token("Return", "return", 75, 26), <<Atom(a, 33)>>),
             PrintStmt(Literal([k |-> "String", s |-> "dead"]))>>, FALSE))>>
      [] b = "if" ->       \* if (true) return AA; else print "dead";
           <<If(Literal([k |-> "True"]), Return(Token("Return", "return", 76,
             10), <<Atom(a, 17)>>), PrintStmt(Literal([k |-> "String",
             s |-> "dead"])))>>
      [] b = "loop_in_block" ->       \* { while (true) { return AA; } print "dead"; }
           <<Block(<<While(Literal([k |-> "True"]),
             Block(<<Return(Token("Return", "return", 77, 17), <<Atom(a,
             24)>>)>>, FALSE)), PrintStmt(Literal([k |-> "String",
             s |-> "dead"]))>>, FALSE)>>

\*   fun f() {} fun g() {} fun u() { return; } print "a"; <b> print "c"; return <a>; print "d";
F_toplevel(a, b) ==
    [id |-> Id("toplevel", a, b),
      statements |-> <<FunctionStmt(Token("Identifier", "f", 70, 4), <<>>,
      <<>>), FunctionStmt(Token("Identifier", "g", 70, 15), <<>>, <<>>),
      FunctionStmt(Token("Identifier", "u", 70, 26), <<>>,
      <<Return(Token("Return", "return", 70, 32), <<>>)>>),
      PrintStmt(Literal([k |-> "String", s |-> "a"]))>> \o ReturnBody(a,
      b) \o <<PrintStmt(Literal([k |-> "String", s |-> "c"])),
      Return(Token("Return", "return", 70, 91), <<Atom(a, 98)>>),
      PrintStmt(Literal([k |-> "String", s |-> "d"]))>>]

ReturnKinds ==
    {"bare", "void", "block", "nested", "loop", "if", "loop_in_block"}

TopLevels == {F_toplevel(a, b) : a \in Atoms, b \in ReturnKinds}

NextCalls ==
    \/ \E p \in Results \cup Callables \cup {P_redeclared} \cup Captures :
           /\ calls = 0
           /\ \/ Interpret(p)
              \/ Eval(p)
    \/ \E p \in TopLevels :
           /\ calls = 0
           /\ Interpret(p)

SpecCalls == Init /\ [][NextCalls]_vars

\* the values the last call bound to the variable of a lexeme
Bound(lexeme) ==
    {trace[i].val : i \in {j \in Events("define") :
                              trace[j].name.lexeme = lexeme}}

(***************************************************************************)
(* C21.  The None marker is never the value of an expression: no call      *)
(* produces it, no parameter and no variable is bound to it, and a call    *)
(* whose body ends without a return or with `return;` produces Nil.        *)
(***************************************************************************)
C21_NoneNeverObservable ==
    Ran("result") =>
        /\ \A i \in Events("return") : trace[i].val /= None
        /\ \A i \in Events("call") :
               \A k \in DOMAIN trace[i].args : trace[i].args[k] /= None
        /\ \A i \in Events("define") : trace[i].val /= None
        /\ last.p.b \in {"empty", "local", "untaken", "bare", "nested_bare",
                         "loop_bare"}
               => Bound("r") = {Nil}

\* a body that ends without a return: h(1) is nil
C21_NilWithoutReturn ==
    /\ Ran("result")
    /\ last.p.a = "1"
    /\ last.p.b = "local"
    /\ Bound("w") = {Number(F(1))}
    /\ Bound("r") = {Nil}
    /\ Bound("isnil") = {Bool(TRUE)}
    /\ out = <<"nil">>

(***************************************************************************)
(* C22.  Two callables are equal under == exactly when they come from the  *)
(* same function declaration: a callable and its copy, and the callables   *)
(* of two evaluations of one declaration (two calls of mk, two rounds of   *)
(* a loop), are equal, and callables of different declarations are not.    *)
(***************************************************************************)
C22_CallableEquality ==
    /\ Ran("callable") =>
           out = <<IF Declaration[last.p.a] = Declaration[last.p.b]
                   THEN "true" ELSE "false">>
    /\ Ran("redeclared") => out = <<"true">>

\* the part that holds: a callable equals itself and its copies, and is
\* unequal to the callable of any other declaration
C22_EqualityOfCopies ==
    Ran("callable") /\ {last.p.a, last.p.b} /= {"m1", "m2"} =>
        out = <<IF Declaration[last.p.a] = Declaration[last.p.b]
                THEN "true" ELSE "false">>

\* `var c = f; print f == c;` prints true
C22_CopyEqual ==
    /\ Ran("callable")
    /\ last.p.a = "f"
    /\ last.p.b = "c"
    /\ out = <<"true">>

(***************************************************************************)
(* C23.  A function declaration binds the name, in the environment the     *)
(* declaration is evaluated in, to a callable that captures that very      *)
(* environment: every call runs in a child of it, the body reaches the     *)
(* function by its own name, and it reads a binding that was added to      *)
(* that environment, or changed in it, after the declaration.  Each        *)
(* program of the family prints, from inside a function, the value that    *)
(* `arg` was given.                                                        *)
(***************************************************************************)
C23_CapturesDeclaringEnvironment ==
    Ran("capture") =>
        /\ \A i \in Events("declare") :
               /\ trace[i].val.f.environment = trace[i].env
               /\ trace[i].name.lexeme \in DOMAIN envs[trace[i].env].values
        /\ \A i \in Events("call") :
               envs[trace[i].env].enclosing = trace[i].f.environment
        /\ status.res = "Ok"
        /\ \E v \in Bound("arg") : out = <<to_string(v)>>

\* fun outer(v) { fun rec(n) { if (n > 0) rec(n - 1); else print v; }
\* rec(2); } outer(1): rec calls itself twice and prints 1
C23_RecursionByName ==
    /\ Ran("capture")
    /\ last.p.a = "1"
    /\ last.p.b = "recursion_in_function"
    /\ Cardinality(Events("call")) = 4
    /\ out = <<"1">>

\* the returns the last call executed outside every function
TopLevelReturns == {i \in Events("ret") : Activation(trace[i].env) = 0}

(***************************************************************************)
(* C30.  A return outside any function is no error and does not stop the   *)
(* program: it ends the top-level block or loop it is in, and interpret    *)
(* goes on with the next top-level statement.  A program of the family     *)
(* prints a, runs a top-level statement that returns (after printing b,    *)
(* in three of the kinds), prints c, returns again and prints d.           *)
(***************************************************************************)
C30_TopLevelReturn ==
    Ran("toplevel") =>
        /\ status.res = "Ok"
        /\ Cardinality(TopLevelReturns) = 2
        /\ out = <<"a">>
                 \o (IF last.p.b \in {"block", "nested", "loop"}
                     THEN <<"b">> ELSE <<>>)
                 \o <<"c", "d">>

\* print "a"; while (true) { print "b"; return 1; print "dead"; }
\* print "c"; return 1; print "d";
C30_ReturnedFromLoop ==
    /\ Ran("toplevel")
    /\ last.p.a = "1"
    /\ last.p.b = "loop"
    /\ Cardinality(TopLevelReturns) = 2
    /\ out = <<"a", "b", "c", "d">>

(***************************************************************************)
(* Scopes.  A step is a pass of a new Resolver over one program of the     *)
(* families below.  The programs are built from their parameters; a token  *)
(* of a program is at the position given, so that no two nodes of a        *)
(* program have the same key in locals.                                    *)
(***************************************************************************)
MaxNest == 3

Ident(lexeme, line, position) == Token("Identifier", lexeme, line, position)

Lit(n) == Literal([k |-> "Num", n |-> Fin(n, 1)])

\* n blocks around the statements:  { .. { statements } .. }
RECURSIVE Enclosed(_, _)
Enclosed(n, statements) ==
    IF n = 0 THEN statements
    ELSE Enclosed(n - 1, <<Block(statements, FALSE)>>)

\* The family "use".  The name a is used inside n nested blocks,
\*   [var a = 0;] { [var a = 1;] { [var a = 2;] .. <use> .. } }
\* and declared at the levels of decl, level 0 being the top level and
\* level i the i-th block from outside.  The use is  print a;  a = 9;  or
\* print -a;
UseToken == Ident("a", 80, 100)

UseKinds == {"read", "assign", "negate"}

Use(kind) ==
    CASE kind = "read" -> PrintStmt(Variable(UseToken))
      [] kind = "assign" -> Expression(Assign(UseToken, Lit(9)))
      [] kind = "negate" ->
           PrintStmt(Unary(Token("Minus", "-", 80, 99), Variable(UseToken)))

RECURSIVE Nested(_, _, _, _)
Nested(level, n, decl, kind) ==
    LET own == IF level \in decl
               THEN <<Var(Ident("a", 80, 10 * level + 1), Lit(level))>>
               ELSE <<>>
        inner == IF level = n THEN <<Use(kind)>>
                 ELSE <<Block(Nested(level + 1, n, decl, kind), FALSE)>>
    IN  own \o inner

F_use(n, decl, kind) ==
    [id |-> Id("use", [n |-> n, decl |-> decl], kind),
     statements |-> Nested(0, n, decl, kind)]

Uses ==
    UNION {{F_use(n, decl, kind) : decl \in SUBSET (0..n), kind \in UseKinds} :
               n \in 0..MaxNest}

\* The family "function".  A function is declared inside `place` blocks,
\* after a local x and before a use of its name when place > 0:
\*   { .. { var x = 1; fun f(p) { <body> } print f; } .. }
\* and at the top level it is  fun f(p) { <body> }
FunctionKinds ==
    {"read_param", "assign_param", "nested_read", "local_var", "read_local",
     "read_self"}

FunctionBody(kind) ==
    CASE kind = "read_param" ->       \* print p;
           <<PrintStmt(Variable(Ident("p", 81, 40)))>>
      [] kind = "assign_param" ->     \* p = 9;
           <<Expression(Assign(Ident("p", 81, 40), Lit(9)))>>
      [] kind = "nested_read" ->      \* { print p; }
           <<Block(<<PrintStmt(Variable(Ident("p", 81, 40)))>>, FALSE)>>
      [] kind = "local_var" ->        \* var y = p; print y;
           <<Var(Ident("y", 81, 35), Variable(Ident("p", 81, 40))),
             PrintStmt(Variable(Ident("y", 81, 45)))>>
      [] kind = "read_local" ->       \* print x;
           <<PrintStmt(Variable(Ident("x", 81, 40)))>>
      [] kind = "read_self" ->        \* f(p);
           <<Expression(Call(Variable(Ident("f", 81, 40)),
                             Token("RightParen", ")", 81, 43),
                             <<Variable(Ident("p", 81, 42))>>))>>

\* the nodes of the body that refer to the parameter, to a local of the
\* body or to a local of an enclosing block
Referred(place, kind) ==
    CASE kind \in {"read_param", "assign_param", "nested_read"} ->
           {Ident("p", 81, 40)}
      [] kind = "local_var" -> {Ident("p", 81, 40), Ident("y", 81, 45)}
      [] kind = "read_local" ->
           IF place > 0 THEN {Ident("x", 81, 40)} ELSE {}
      [] kind = "read_self" ->
           {Ident("p", 81, 42)}
           \cup (IF place > 0 THEN {Ident("f", 81, 40)} ELSE {})

F_function(place, kind) ==
    LET fun == FunctionStmt(Ident("f", 81, 20), <<Ident("p", 81, 22)>>,
                            FunctionBody(kind))
    IN  [id |-> Id("function", place, kind),
         statements |->
             IF place = 0 THEN <<fun>>
             ELSE Enclosed(place,
                           <<Var(Ident("x", 81, 10), Lit(1)), fun,
                             PrintStmt(Variable(Ident("f", 81, 60)))>>)]

Functions ==
    {F_function(place, kind) : place \in 0..MaxNest, kind \in FunctionKinds}

\* The family "failing".  Inside `place` blocks, a statement that the
\* resolver reports (or, for "none", one it does not) is followed by more
\* statements, and the block by another:
\*   { .. { <err> <rest> } .. } { var z = 1; print z; }
ErrKinds == {"own", "own_nested", "none"}

RestKinds == {"use", "own", "block_use"}

Failing(kind) ==
    CASE kind = "own" ->            \* var a = a;
           <<Var(Ident("a", 82, 10), Variable(Ident("a", 82, 14)))>>
      [] kind = "own_nested" ->     \* { var a = a; }
           <<Block(<<Var(Ident("a", 82, 10), Variable(Ident("a", 82, 14)))>>,
                   FALSE)>>
      [] kind = "none" ->           \* var a = 1;
           <<Var(Ident("a", 82, 10), Lit(1))>>

Rest(kind) ==
    CASE kind = "use" ->            \* var b = 1; print b;
           <<Var(Ident("b", 82, 20), Lit(1)),
             PrintStmt(Variable(Ident("b", 82, 30)))>>
      [] kind = "own" ->            \* var c = c;
           <<Var(Ident("c", 82, 20), Variable(Ident("c", 82, 30)))>>
      [] kind = "block_use" ->      \* { var b = 1; print b; }
           <<Block(<<Var(Ident("b", 82, 20), Lit(1)),
                     PrintStmt(Variable(Ident("b", 82, 30)))>>, FALSE)>>

F_failing(place, err, rest) ==
    [id |-> Id("failing", place, [err |-> err, rest |-> rest]),
     statements |->
         Enclosed(place, Failing(err) \o Rest(rest))
         \o <<Block(<<Var(Ident("z", 82, 40), Lit(1)),
                      PrintStmt(Variable(Ident("z", 82, 50)))>>, FALSE)>>]

Failings ==
    {F_failing(place, err, rest) : place \in 1..MaxNest, err \in ErrKinds,
                                   rest \in RestKinds}

NextScopes ==
    \/ \E p \in Uses : calls = 0 /\ Resolve(p)
    \/ \E p \in Functions : calls = 0 /\ Resolve(p)
    \/ \E p \in Failings : calls = 0 /\ Resolve(p)

SpecScopes == Init /\ [][NextScopes]_vars

\* the last call was a resolver pass over a program of family f
Passed(f) == last.op = "resolve" /\ last.p.fam = f

\* the scopes of the stack, at the use of a program of the family "use",
\* that hold the name: the blocks 1..n that declare it
Declaring(id) == id.a.decl \cap (1..id.a.n)

Innermost(levels) == CHOOSE l \in levels : \A m \in levels : m <= l

(***************************************************************************)
(* C24.  A Variable or Assign node whose name is declared in one or more   *)
(* of the nested scopes of the stack gets the depth of the innermost scope *)
(* that holds the name: the number of scopes between the use and that      *)
(* scope.  A match in an outer scope does not replace it.                  *)
(***************************************************************************)
C24_InnermostScope ==
    (Passed("use") /\ Declaring(last.p) /= {}) =>
        /\ status.res = "Ok"
        /\ UseToken \in DOMAIN locals
        /\ locals[UseToken] = last.p.a.n - Innermost(Declaring(last.p))

\* with one scope that holds the name, two blocks out of three, the depth
\* is the one of that scope
C24_OneScope ==
    /\ Passed("use")
    /\ last.p.a.n = MaxNest
    /\ last.p.a.decl = {MaxNest - 1}
    /\ last.p.b = "assign"
    /\ UseToken \in DOMAIN locals
    /\ locals[UseToken] = 1

(***************************************************************************)
(* C25.  A Variable or Assign node whose name no scope of the stack holds  *)
(* gets no depth and its resolution does not fail, also when the stack is  *)
(* empty (a use at the top level); a declaration at the top level is not   *)
(* tracked.                                                                *)
(***************************************************************************)
C25_UnresolvedIsGlobal ==
    (Passed("use") /\ Declaring(last.p) = {}) =>
        /\ status.res = "Ok"
        /\ errors = <<>>
        /\ UseToken \notin DOMAIN locals

\* inside two blocks, a name declared at the top level only gets no depth
C25_GlobalFromBlocks ==
    /\ Passed("use")
    /\ last.p.a.n = 2
    /\ last.p.a.decl = {0}
    /\ last.p.b = "read"
    /\ status.res = "Ok"
    /\ UseToken \notin DOMAIN locals

(***************************************************************************)
(* C26.  Resolving a function declaration resolves the statements of the   *)
(* body in a scope that holds the parameters: every Variable and Assign    *)
(* node of the body that refers to a parameter, to a local of the body or  *)
(* to a local of an enclosing block has a depth, and the pass ends with    *)
(* the scope closed.                                                       *)
(***************************************************************************)
C26_BodyResolved ==
    Passed("function") =>
        /\ status.res = "Ok"
        /\ scopes = <<>>
        /\ Referred(last.p.a, last.p.b) \subseteq DOMAIN locals

\* the name of the function is defined in the current scope: a use of it
\* after the declaration, in the same block, has depth 0
C26_NameDefined ==
    /\ Passed("function")
    /\ last.p.a = 1
    /\ last.p.b = "read_param"
    /\ status.res = "Ok"
    /\ Ident("f", 81, 60) \in DOMAIN locals
    /\ locals[Ident("f", 81, 60)] = 0

OwnInitializer(position) ==
    LoxError(82, "Can't read local variable in it's own initializer", position)

(***************************************************************************)
(* C27.  After a static error in a statement, the remaining statements of  *)
(* the enclosing blocks and of the program are still resolved: their uses  *)
(* get their depths, and a further static error is reported too, after the *)
(* first.                                                                  *)
(***************************************************************************)
C27_RunsToCompletion ==
    (Passed("failing") /\ last.p.b.err /= "none") =>
        /\ status.res = "Err"
        /\ errors = <<OwnInitializer(14)>>
                    \o (IF last.p.b.rest = "own" THEN <<OwnInitializer(30)>>
                        ELSE <<>>)
        /\ last.p.b.rest /= "own" =>
               /\ Ident("b", 82, 30) \in DOMAIN locals
               /\ locals[Ident("b", 82, 30)] = 0
        /\ Ident("z", 82, 50) \in DOMAIN locals
        /\ locals[Ident("z", 82, 50)] = 0

\* the statement of the program after the failing block is resolved
C27_NextStatementResolved ==
    /\ Passed("failing")
    /\ last.p.a = 2
    /\ last.p.b = [err |-> "own", rest |-> "use"]
    /\ errors = <<OwnInitializer(14)>>
    /\ Ident("z", 82, 50) \in DOMAIN locals
    /\ locals[Ident("z", 82, 50)] = 0

(***************************************************************************)
(* C29.  A pass of the resolver that does not panic leaves the scope stack *)
(* as deep as it found it, empty: every begin_scope of a block or of a     *)
(* function is matched by an end_scope, also when a statement inside       *)
(* reports an error.                                                       *)
(***************************************************************************)
C29_ScopesBalanced ==
    (last.op = "resolve" /\ status.res /= "Panic") => scopes = <<>>

\* without an error, blocks in blocks leave the stack empty
C29_BalancedWithoutError ==
    /\ Passed("failing")
    /\ last.p.a = MaxNest
    /\ last.p.b = [err |-> "none", rest |-> "block_use"]
    /\ status.res = "Ok"
    /\ scopes = <<>>
    /\ Ident("b", 82, 30) \in DOMAIN locals

(***************************************************************************)
(* The parser on any tokens.  A token list is up to MaxTokens tokens of    *)
(* Words, an EOF among them too, and the EOF that ends it.  A step is      *)
(* Parser::new on a token list or one iteration of the loop of             *)
(* Parser::parse on the parser it left; the loop goes on while it can.     *)
(***************************************************************************)
MaxTokens == 4

Eof == [token_type |-> "EOF", lexeme |-> "", literal |-> <<>>]

Words == {Sym("{"), Sym("}"), Sym(";"), Sym("print"), Name("a"), Eof}

TokenLists == UNION {[1..n -> Words] : n \in 0..MaxTokens}

\* Parser::new(tokens)
NewParser(words) ==
    /\ last.op = "new"
    /\ parser' = Parser_new(Tokens(words))
    /\ last' = [op |-> "tokens", p |-> Id("tokens", Len(words), words)]
    /\ UNCHANGED <<envs, environment, locals, scopes, errors, out, trace,
                   nclone, status, calls, resolved, scanner, scanned>>

\* the loop of parse has made one more iteration and left the parser p
Iterated(p) ==
    /\ last.op \in {"tokens", "iteration"}
    /\ parser.current >= 0
    /\ ~Parser_is_at_end(parser)
    /\ parser' = p
    /\ last' = [last EXCEPT !.op = "iteration"]
    /\ UNCHANGED <<envs, environment, locals, scopes, errors, out, trace,
                   nclone, status, calls, resolved, scanner, scanned>>

ParseIteration == Iterated(parse_iteration(parser))

NextTokens ==
    \/ \E words \in TokenLists : NewParser(words)
    \/ ParseIteration

SpecTokens == Init /\ [][NextTokens]_vars

\* a parser is at work on a token list
Parsing == last.op \in {"tokens", "iteration"}

\* parse has returned
ParseReturned == Parsing /\ parser.current >= 0 /\ Parser_is_at_end(parser)

\* current is an index of the Vec of tokens
ValidCursor ==
    Parsing => parser.current \in 0..(Len(parser.tokens) - 1)

\* a call of synchronize at any place of the token list where advance
\* does not panic leaves the cursor further on, or on the EOF it was on
SynchronizeAdvances ==
    Parsing =>
        \A c \in 0..(Len(parser.tokens) - 1) :
            LET p == [parser EXCEPT !.current = c]
                q == synchronize(p)
            IN  ~(Parser_is_at_end(p) /\ c = 0) =>
                    /\ q.current \in c..(Len(parser.tokens) - 1)
                    /\ q.current = c => Parser_is_at_end(p)

\* the iterations made so far, one statement or one error each, are no
\* more than the tokens passed
Bounded ==
    Parsing => Len(parser.statements) + Len(parser.errors) <= parser.current

\* parse returns what the iterations leave
AsParse == ParseReturned => parser = parse(Parser_new(parser.tokens))

(***************************************************************************)
(* C28.  On every token list that ends with EOF, Parser::parse returns:    *)
(* every iteration of its loop leaves the cursor at least one token        *)
(* further on, so that the iterations are no more than the tokens, every   *)
(* call of synchronize leaves the cursor further on or on the EOF it was   *)
(* on, current is always an index of the token list, and previous() is     *)
(* never called with current = 0 (no parser panics).                       *)
(***************************************************************************)
C28_ParseTerminates ==
    /\ []ValidCursor
    /\ []SynchronizeAdvances
    /\ []AsParse
    /\ []Bounded
    /\ [][last'.op = "iteration" => parser'.current > parser.current]_vars

\* the tokens  } ; a ;  : the first iteration fails at the `}` and
\* synchronize stops after the first `;`, the second takes  a ;  to the EOF
C28_Recovered ==
    /\ ParseReturned
    /\ last.p.b = <<Sym("}"), Sym(";"), Name("a"), Sym(";")>>
    /\ parser.current = 4
    /\ Len(parser.errors) = 1
    /\ Len(parser.statements) = 1

====
